---- MODULE Spec2Model ----
(***************************************************************************)
(* Model of sat-sys: the orbit simulation library                          *)
(* (src/sat-sys/src/utils/SatelliteSimulator.ts: the SatelliteSimulator    *)
(* class and OrbitUtils.predictCollisionRisk), the hook useSatelliteData,  *)
(* and App with SatelliteForm, AlertPanel and AutomaticManeuverSystem.     *)
(*                                                                         *)
(* Numbers.  JavaScript doubles are modelled in fixed point:               *)
(*   lengths          integer km                                           *)
(*   angles           integer millidegrees (mdeg), 360000 to the turn      *)
(*   sines, cosines   integer, scaled by TrigScale                         *)
(*   eccentricity     integer thousandths                                  *)
(*   mean motion      integer microdegrees per second                      *)
(*   speeds           integer m/s                                          *)
(*   elapsed time     integer seconds                                      *)
(*   wall clock       integer, in steps of 30 s (the monitoring period)    *)
(* A value that can be NaN, Infinity or undefined carries a tag.           *)
(***************************************************************************)
EXTENDS Integers, Sequences, FiniteSets, TLC

----------------------------------------------------------------------------
(* Bounds of the model *)

\* largest elapsed simulated time a propagator is driven to, in seconds
MaxTime == 121

\* largest number of successful maneuvers of one propagator
MaxBurns == 1

\* largest number of entries in the satellite list of the hook
MaxSatellites == 2

\* largest number of simulators the hook creates
MaxSimulators == 3

\* largest number of interval timers the hook sets
MaxIntervals == 2

\* largest number of calls of monitorThreats that await their fetches at once
MaxPasses == 2

\* how often the monitoring timer fires
MaxNow == 1

\* largest number of entries of spaceWeatherAlerts
MaxAlerts == 2

\* largest number of alerts dismissed
MaxDismissed == 2

\* processCollisions is not called once it has made this many calls of onExecuteAction
MaxManeuvers == 2

\* how many times "Predict Collisions" is pressed
MaxCalls == 2

----------------------------------------------------------------------------
(* Fixed-point arithmetic *)

TrigScale == 10000

Abs(n) == IF n < 0 THEN -n ELSE n

\* a / b rounded to the nearest integer (b > 0), the model of a double division
RDiv(a, b) == IF a >= 0 THEN (2 * a + b) \div (2 * b) ELSE -((2 * (-a) + b) \div (2 * b))

RECURSIVE SqrtSearch(_, _, _)
SqrtSearch(n, lo, hi) ==
    IF lo >= hi THEN lo
    ELSE LET mid == (lo + hi + 1) \div 2
         IN  IF mid * mid <= n THEN SqrtSearch(n, mid, hi) ELSE SqrtSearch(n, lo, mid - 1)

\* Math.sqrt on a non-negative integer, rounded down
Sqrt(n) == SqrtSearch(n, 0, 46340)

\* sin of whole degrees 0..90, scaled by TrigScale
SinTable ==
    << 0, 175, 349, 523, 698, 872, 1045, 1219, 1392, 1564, 1736, 1908, 2079, 2250,
       2419, 2588, 2756, 2924, 3090, 3256, 3420, 3584, 3746, 3907, 4067, 4226, 4384,
       4540, 4695, 4848, 5000, 5150, 5299, 5446, 5592, 5736, 5878, 6018, 6157, 6293,
       6428, 6561, 6691, 6820, 6947, 7071, 7193, 7314, 7431, 7547, 7660, 7771, 7880,
       7986, 8090, 8192, 8290, 8387, 8480, 8572, 8660, 8746, 8829, 8910, 8988, 9063,
       9135, 9205, 9272, 9336, 9397, 9455, 9511, 9563, 9613, 9659, 9703, 9744, 9781,
       9816, 9848, 9877, 9903, 9925, 9945, 9962, 9976, 9986, 9994, 9998, 10000 >>

\* sin of an angle in 0..90000 mdeg, by linear interpolation in the table
SinQ(a) ==
    LET d == a \div 1000
        f == a % 1000
    IN  IF f = 0 THEN SinTable[d + 1]
        ELSE SinTable[d + 1] + RDiv((SinTable[d + 2] - SinTable[d + 1]) * f, 1000)

\* Math.sin of an angle in mdeg
Sin(a) ==
    LET r == a % 360000
    IN  IF r <= 90000 THEN SinQ(r)
        ELSE IF r <= 180000 THEN SinQ(180000 - r)
        ELSE IF r <= 270000 THEN -SinQ(r - 180000)
        ELSE -SinQ(360000 - r)

\* Math.cos of an angle in mdeg
Cos(a) == Sin(a + 90000)

\* the product of two values scaled by TrigScale, scaled by TrigScale
TMul(a, b) == RDiv(a * b, TrigScale)

----------------------------------------------------------------------------
(* JavaScript values that are not plain finite numbers *)

\* an optional field of a descriptor: <<>> is undefined, <<v>> is the number v
Undefined == << >>

\* JavaScript's (x || d) on an optional number: undefined and 0 are both falsy
OrDefault(opt, d) == IF opt = Undefined \/ opt[1] = 0 THEN d ELSE opt[1]

\* a speed in m/s, or NaN
Num(v) == [nan |-> FALSE, v |-> v]
NaN == [nan |-> TRUE, v |-> 0]

\* a vector of three doubles that are finite together or NaN together
Vec(x, y, z) == [nan |-> FALSE, x |-> x, y |-> y, z |-> z]
NaNVec == [nan |-> TRUE, x |-> 0, y |-> 0, z |-> 0]
ZeroVec == Vec(0, 0, 0)

\* a distance in km, or Infinity
Fin(d) == [inf |-> FALSE, d |-> d]
Infinity == [inf |-> TRUE, d |-> 0]

\* (d < m) for a finite distance d and a distance m that may be Infinity
Less(d, m) == m.inf \/ d < m.d

----------------------------------------------------------------------------
(* Orbital elements: SatelliteSimulator.calculateOrbitalElements *)

earthRadius == 6371

\* 10^11 / mu with mu = 3.986004418e5 km^3/s^2: Sqrt(a * InvMu) is
\* sqrt(a / mu) scaled by sqrt(10^11)
InvMu == 250879

\* sqrt(10^11) / (2 * pi * 10): divides a * sqrt(a / mu) into a period in 0.1 s
PeriodDiv == 5033

\* 2 * pi * sqrt(a^3 / mu), in tenths of a second
OrbitalPeriod(semiMajorAxis) == RDiv(semiMajorAxis * Sqrt(semiMajorAxis * InvMu), PeriodDiv)

\* 2 * pi / orbitalPeriod, in microdegrees per second
MeanMotion(orbitalPeriod) == 4 * RDiv(900000000, orbitalPeriod)

\* degrees to radians: degrees to millidegrees in the model
ToRad(deg) == deg * 1000

\* the record the propagator keeps in this.orbitalElements; sat is this.satellite
calculateOrbitalElements(sat) ==
    LET semiMajorAxis == sat.altitude + earthRadius
        orbitalPeriod == OrbitalPeriod(semiMajorAxis)
        base == [ semiMajorAxis |-> semiMajorAxis,
                  inclination |-> ToRad(sat.inclination),
                  meanMotion |-> MeanMotion(orbitalPeriod),
                  orbitalPeriod |-> orbitalPeriod,
                  eccentricity |-> 0,
                  argumentOfPeriapsis |-> 0,
                  rightAscensionOfAscendingNode |-> 0,
                  meanAnomaly |-> 0 ]
    IN  IF sat.orbitType = "LEO"
        THEN [base EXCEPT !.eccentricity = OrDefault(sat.eccentricity, 10),
                          !.argumentOfPeriapsis = ToRad(OrDefault(sat.argumentOfPeriapsis, 0))]
        ELSE IF sat.orbitType = "Polar"
        THEN [base EXCEPT !.rightAscensionOfAscendingNode =
                              ToRad(OrDefault(sat.rightAscensionOfAscendingNode, 0)),
                          !.meanAnomaly = ToRad(OrDefault(sat.meanAnomaly, 0))]
        ELSE base

----------------------------------------------------------------------------
(* Kepler's equation: SatelliteSimulator.solveKeplersEquation *)

maxIterations == 10

\* 1e-6 rad is below the resolution of the model: |f| < 1e-6 is |f| < 1 mdeg
KeplerTol == 1

\* e * sin(E) as an angle in mdeg (e in thousandths, 57.2958 degrees to the radian)
EccSin(E, e) == RDiv(RDiv(e * Sin(E), 10) * 573, 100000)

\* 1 - e * cos(E), scaled by TrigScale
OneMinusECos(E, e) == TrigScale - RDiv(e * Cos(E), 1000)

\* an angle in mdeg, or a value that is not finite: a mean anomaly that is
\* Infinity or NaN makes every f of the loop NaN
Angle(v) == [nan |-> FALSE, v |-> v]
NotFinite == [nan |-> TRUE, v |-> 0]

\* the locals of solveKeplersEquation: pc is "idle", "loop" or "returned"
KeplerIdle ==
    [ pc |-> "idle", meanAnomaly |-> Angle(0), eccentricity |-> 0,
      eccentricAnomaly |-> Angle(0), i |-> 0 ]

\* the frame at entry: "let eccentricAnomaly = meanAnomaly" and i = 0
KeplerEntry(meanAnomaly, eccentricity) ==
    [ pc |-> "loop", meanAnomaly |-> meanAnomaly, eccentricity |-> eccentricity,
      eccentricAnomaly |-> meanAnomaly, i |-> 0 ]

\* f = E - e * sin(E) - M for the finite values of frame k, mdeg
KeplerF(k) ==
    k.eccentricAnomaly.v - EccSin(k.eccentricAnomaly.v, k.eccentricity) - k.meanAnomaly.v

\* f / fPrime, mdeg, for fPrime > 0 scaled by TrigScale; a large f is divided
\* with fewer digits to stay within the integers of the model
NewtonStep(f, fPrime) ==
    IF Abs(f) <= 100000 THEN RDiv(f * TrigScale, fPrime)
    ELSE IF Abs(f) <= 1000000 THEN 10 * RDiv(f * 1000, fPrime)
    ELSE 100 * RDiv(f * 100, fPrime)

\* a variant of the pass that never leaves the loop early
KeplerPassWithoutBreak(k) ==
    IF k.eccentricAnomaly.nan \/ k.meanAnomaly.nan
    THEN [k EXCEPT !.eccentricAnomaly = NotFinite, !.i = @ + 1]
    ELSE LET f == KeplerF(k)
             fPrime == OneMinusECos(k.eccentricAnomaly.v, k.eccentricity)
         IN  [k EXCEPT !.eccentricAnomaly = Angle(@.v - NewtonStep(f, fPrime)),
                       !.i = @ + 1]

\* one pass of the body of the for loop, entered with i < maxIterations: the
\* break, or the Newton update followed by i++; Math.abs(NaN) < 1e-6 is false
KeplerPass(k) ==
    IF k.eccentricAnomaly.nan \/ k.meanAnomaly.nan
    THEN [k EXCEPT !.eccentricAnomaly = NotFinite, !.i = @ + 1]
    ELSE LET f == KeplerF(k)
             fPrime == OneMinusECos(k.eccentricAnomaly.v, k.eccentricity)
         IN  IF Abs(f) < KeplerTol THEN [k EXCEPT !.pc = "returned"]
             ELSE [k EXCEPT !.eccentricAnomaly = Angle(@.v - NewtonStep(f, fPrime)),
                            !.i = @ + 1]

\* the loop run to its end: the frame at "return eccentricAnomaly"
RECURSIVE KeplerLoop(_)
KeplerLoop(k) ==
    IF k.pc = "returned" THEN k
    ELSE IF k.i >= maxIterations THEN [k EXCEPT !.pc = "returned"]
    ELSE KeplerLoop(KeplerPass(k))

\* the eccentric anomaly for a finite mean anomaly, mdeg
solveKeplersEquation(meanAnomaly, eccentricity) ==
    KeplerLoop(KeplerEntry(Angle(meanAnomaly), eccentricity)).eccentricAnomaly.v

----------------------------------------------------------------------------
(* Position on the orbit: the arithmetic of SatelliteSimulator.calculatePosition *)

\* a * (1 - e * cos(E)), km
Radius(oe, E) == RDiv(oe.semiMajorAxis * OneMinusECos(E, oe.eccentricity), TrigScale)

\* cos and sin of trueAnomaly = 2 * atan2(sqrt(1+e) sin(E/2), sqrt(1-e) cos(E/2)),
\* which are (cos E - e) / (1 - e cos E) and sqrt(1 - e^2) sin E / (1 - e cos E)
CosTrueAnomaly(E, e) == RDiv((Cos(E) - 10 * e) * TrigScale, OneMinusECos(E, e))
SinTrueAnomaly(E, e) ==
    RDiv(RDiv(Sqrt((1000 - e) * (1000 + e)) * Sin(E), 1000) * TrigScale, OneMinusECos(E, e))

\* the position the elements oe give at elapsed time t, eccentricity below 1
EllipticPositionAt(oe, t) ==
    LET currentMeanAnomaly == oe.meanAnomaly + RDiv(oe.meanMotion * t, 1000)
        eccentricAnomaly == solveKeplersEquation(currentMeanAnomaly, oe.eccentricity)
        radius == Radius(oe, eccentricAnomaly)
        xOrbital == RDiv(radius * CosTrueAnomaly(eccentricAnomaly, oe.eccentricity), TrigScale)
        yOrbital == RDiv(radius * SinTrueAnomaly(eccentricAnomaly, oe.eccentricity), TrigScale)
        cosRAAN == Cos(oe.rightAscensionOfAscendingNode)
        sinRAAN == Sin(oe.rightAscensionOfAscendingNode)
        cosInc == Cos(oe.inclination)
        sinInc == Sin(oe.inclination)
        cosArgP == Cos(oe.argumentOfPeriapsis)
        sinArgP == Sin(oe.argumentOfPeriapsis)
        x == RDiv(xOrbital * (TMul(cosRAAN, cosArgP) - TMul(TMul(sinRAAN, sinArgP), cosInc)), TrigScale)
             - RDiv(yOrbital * (TMul(cosRAAN, sinArgP) + TMul(TMul(sinRAAN, cosArgP), cosInc)), TrigScale)
        y == RDiv(xOrbital * (TMul(sinRAAN, cosArgP) + TMul(TMul(cosRAAN, sinArgP), cosInc)), TrigScale)
             - RDiv(yOrbital * (TMul(sinRAAN, sinArgP) - TMul(TMul(cosRAAN, cosArgP), cosInc)), TrigScale)
        z == RDiv(xOrbital * TMul(sinArgP, sinInc), TrigScale)
             + RDiv(yOrbital * TMul(cosArgP, sinInc), TrigScale)
    IN  Vec(x, y, z)

\* the position calculatePosition stores: with an eccentricity above 1,
\* Math.sqrt(1 - eccentricity) is NaN, and so are trueAnomaly, xOrbital,
\* yOrbital and the three coordinates
PositionAt(oe, t) ==
    IF oe.eccentricity > 1000 THEN NaNVec ELSE EllipticPositionAt(oe, t)

----------------------------------------------------------------------------
(* The propagator: class SatelliteSimulator *)

\* caller-owned Satellite descriptor objects, by identity: the ones the two
\* propagators are built from (the catalogue has one more, for the form)
DescId == 1 .. 6

Descriptor(orbitType, altitude, inclination, tle, ecc, argP, raan, meanAnomaly) ==
    [ orbitType |-> orbitType, altitude |-> altitude, inclination |-> inclination,
      velocity |-> Num(7660), tle |-> tle, eccentricity |-> ecc,
      argumentOfPeriapsis |-> argP, rightAscensionOfAscendingNode |-> raan,
      meanAnomaly |-> meanAnomaly ]

\* the descriptors the callers build propagators from
Catalogue ==
    << Descriptor("LEO", 400, 51, FALSE, Undefined, Undefined, Undefined, Undefined),
       Descriptor("LEO", 404, 51, FALSE, <<10>>, <<0>>, Undefined, Undefined),
       Descriptor("LEO", 405, 51, FALSE, Undefined, Undefined, Undefined, Undefined),
       Descriptor("Polar", 400, 51, FALSE, <<200>>, Undefined, Undefined, <<1>>),
       Descriptor("LEO", 408, 52, TRUE, Undefined, Undefined, Undefined, Undefined),
       Descriptor("Polar", 500, 51, FALSE, Undefined, Undefined, <<0>>, Undefined),
       Descriptor("LEO", 410, 53, TRUE, Undefined, Undefined, Undefined, Undefined) >>

\* the placeholder in a propagator that still holds the caller's object
NoDescriptor == Descriptor("none", 0, 0, FALSE, Undefined, Undefined, Undefined, Undefined)

\* what satellite.propagate answers for the wall clock of a call: position and
\* velocity are vectors or false (<<>>); height is what eciToGeodetic gives
LibOutcomes ==
    { [position |-> << >>, velocity |-> << >>, height |-> 0],
      [position |-> << Vec(6700, 300, 400) >>, velocity |-> << Vec(-500, 6000, 4500) >>, height |-> 420],
      [position |-> << Vec(6690, 350, 450) >>, velocity |-> << >>, height |-> 418] }

\* this.satellite: the caller's object while ref # 0, a private copy afterwards
Sat(s, objs) == IF s.ref # 0 THEN objs[s.ref] ELSE s.own

\* an assignment to a field of this.satellite
SetSat(s, objs, field, value) ==
    IF s.ref # 0
    THEN [sim |-> s, objs |-> [objs EXCEPT ![s.ref] = [@ EXCEPT ![field] = value]]]
    ELSE [sim |-> [s EXCEPT !.own = [@ EXCEPT ![field] = value]], objs |-> objs]

\* what a call of updatePositionFromTLE looked at, for the properties below
Snapshot(s, objs) ==
    [position |-> s.position, velocity |-> s.velocity, altitude |-> Sat(s, objs).altitude]
NoProbe ==
    [ran |-> FALSE, valid |-> FALSE,
     before |-> [position |-> ZeroVec, velocity |-> ZeroVec, altitude |-> 0]]

\* the outcome of a method: the propagator, the descriptor objects, whether a
\* TypeError escaped, and the probe of the last TLE update
Outcome(s, objs, threw, probe) == [sim |-> s, objs |-> objs, threw |-> threw, probe |-> probe]

\* a variant that clears the position when the library has none
updatePositionFromTLEClearing(s, objs, lib) ==
    IF ~s.satrec THEN Outcome(s, objs, FALSE, NoProbe)
    ELSE LET probe == [ran |-> TRUE, valid |-> lib.position # << >>, before |-> Snapshot(s, objs)]
             s1 == [s EXCEPT !.position = IF lib.position # << >> THEN lib.position[1] ELSE ZeroVec]
             s2 == IF lib.velocity # << >> THEN [s1 EXCEPT !.velocity = lib.velocity[1]] ELSE s1
             w == IF lib.position # << >> THEN SetSat(s2, objs, "altitude", lib.height)
                  ELSE [sim |-> s2, objs |-> objs]
         IN  Outcome(w.sim, w.objs, FALSE, probe)

updatePositionFromTLE(s, objs, lib) ==
    IF ~s.satrec THEN Outcome(s, objs, FALSE, NoProbe)
    ELSE LET probe == [ran |-> TRUE, valid |-> lib.position # << >>, before |-> Snapshot(s, objs)]
         IN  IF lib.position # << >>
             THEN LET s1 == [s EXCEPT !.position = lib.position[1]]
                      s2 == IF lib.velocity # << >> THEN [s1 EXCEPT !.velocity = lib.velocity[1]] ELSE s1
                      w == SetSat(s2, objs, "altitude", lib.height)
                  IN  Outcome(w.sim, w.objs, FALSE, probe)
             ELSE Outcome(s, objs, FALSE, probe)

\* a variant that recomputes the velocity at each step
calculatePositionWithVelocity(s, objs, timeStep) ==
    LET s1 == [s EXCEPT !.time = @ + timeStep]
    IN  IF s1.orbitalElements = << >>
        THEN Outcome(s1, objs, TRUE, NoProbe)
        ELSE Outcome([s1 EXCEPT !.position = PositionAt(s1.orbitalElements[1], s1.time),
                                !.velocity = Vec(0, 0, 7660)],
                     objs, FALSE, NoProbe)

\* this.time += timeStep, then the destructuring of this.orbitalElements, which
\* is a TypeError while the elements are undefined
calculatePosition(s, objs, timeStep) ==
    LET s1 == [s EXCEPT !.time = @ + timeStep]
    IN  IF s1.orbitalElements = << >>
        THEN Outcome(s1, objs, TRUE, NoProbe)
        ELSE Outcome([s1 EXCEPT !.position = PositionAt(s1.orbitalElements[1], s1.time)],
                     objs, FALSE, NoProbe)

initializeSimulation(s, objs, lib) ==
    IF Sat(s, objs).tle
    THEN updatePositionFromTLE([s EXCEPT !.satrec = TRUE], objs, lib)
    ELSE calculatePosition([s EXCEPT !.orbitalElements = << calculateOrbitalElements(Sat(s, objs)) >>],
                           objs, 1)

\* new SatelliteSimulator(objs[d]): the field initialisers, then the constructor
NewSimulator(d, objs, lib) ==
    initializeSimulation([ ref |-> d, own |-> NoDescriptor, time |-> 0,
                           position |-> ZeroVec, velocity |-> ZeroVec,
                           orbitalElements |-> << >>, satrec |-> FALSE ],
                         objs, lib)

\* { ...this.satellite, ...newSatellite }
Merge(sat, newSatellite) ==
    [f \in DOMAIN sat |-> IF f \in DOMAIN newSatellite THEN newSatellite[f] ELSE sat[f]]

updateSatellite(s, objs, newSatellite, lib) ==
    initializeSimulation([s EXCEPT !.ref = 0, !.own = Merge(Sat(s, objs), newSatellite)], objs, lib)

\* a variant that zeroes the fields and does not initialise again
resetWithoutInit(s, objs, lib) ==
    Outcome([s EXCEPT !.time = 0, !.position = ZeroVec, !.velocity = ZeroVec], objs, FALSE, NoProbe)

\* a variant that leaves the elapsed time alone
resetKeepingTime(s, objs, lib) ==
    initializeSimulation([s EXCEPT !.position = ZeroVec, !.velocity = ZeroVec], objs, lib)

reset(s, objs, lib) ==
    initializeSimulation([s EXCEPT !.time = 0, !.position = ZeroVec, !.velocity = ZeroVec], objs, lib)

getCurrentState(s) ==
    [ position |-> s.position, velocity |-> s.velocity, simulationTime |-> s.time,
      orbitalElements |-> s.orbitalElements ]

----------------------------------------------------------------------------
(* Maneuvers: SatelliteSimulator.executeAction *)

\* JavaScript truthiness of an optional number
Truthy(opt) == opt # Undefined /\ opt[1] # 0

\* the descriptor passes both tests of executeAction
HasBurn(action) ==
    /\ action.parameters # Undefined
    /\ Truthy(action.parameters[1].deltaV)
    /\ Truthy(action.parameters[1].burnDuration)

Parameters(deltaV, burnDuration, newOrbit) ==
    [deltaV |-> deltaV, burnDuration |-> burnDuration, newOrbit |-> newOrbit]

\* the SuggestedAction descriptors the callers pass: parameters is undefined
\* (<<>>) or a record of optional deltaV (m/s), burnDuration (s) and newOrbit
Actions ==
    { [parameters |-> << >>],
      [parameters |-> << Parameters(Undefined, Undefined, Undefined) >>],
      [parameters |-> << Parameters(Undefined, Undefined, << [altitude |-> 402] >>) >>],
      [parameters |-> << Parameters(<<2>>, <<60>>, Undefined) >>],
      [parameters |-> << Parameters(<<1>>, <<30>>, << [altitude |-> 402] >>) >>],
      [parameters |-> << Parameters(<<1>>, <<30>>, << [altitude |-> 0, eccentricity |-> <<0>>] >>) >>],
      [parameters |-> << Parameters(<<1>>, <<30>>, << [eccentricity |-> <<1500>>] >>) >>] }

\* Math.sqrt(v.x**2 + v.y**2 + v.z**2), m/s
Magnitude(v) == IF v.nan THEN NaN ELSE Num(Sqrt(v.x * v.x + v.y * v.y + v.z * v.z))

\* v scaled by newMagnitude / oldMagnitude: a zero oldMagnitude makes the scale
\* Infinity or NaN, and the components of v, all zero then, become NaN
Scaled(v, newMagnitude, oldMagnitude) ==
    IF v.nan \/ newMagnitude.nan \/ oldMagnitude.nan \/ oldMagnitude.v = 0 THEN NaNVec
    ELSE Vec(RDiv(v.x * newMagnitude.v, oldMagnitude.v),
             RDiv(v.y * newMagnitude.v, oldMagnitude.v),
             RDiv(v.z * newMagnitude.v, oldMagnitude.v))

\* the outcome of executeAction, with the boolean it returns in ret
Returned(o, ret) == [sim |-> o.sim, objs |-> o.objs, threw |-> o.threw, probe |-> o.probe, ret |-> ret]

\* the block guarded by "if (deltaV && burnDuration)", p the parameters
Burn(s, objs, p, lib) ==
    LET acceleration == RDiv(p.deltaV[1] * 1000, p.burnDuration[1])  \* mm/s^2
        velocityChange == acceleration * p.burnDuration[1]         \* mm/s
        velocityMagnitude == Magnitude(s.velocity)
        newVelocityMagnitude ==
            IF velocityMagnitude.nan THEN NaN
            ELSE Num(velocityMagnitude.v + RDiv(velocityChange, 1000))
        s1 == [s EXCEPT !.velocity = Scaled(@, newVelocityMagnitude, velocityMagnitude)]
        w == SetSat(s1, objs, "velocity", newVelocityMagnitude)
    IN  IF p.newOrbit # Undefined
        THEN Returned(updateSatellite(w.sim, w.objs, p.newOrbit[1], lib), TRUE)
        ELSE Returned(Outcome(w.sim, w.objs, FALSE, NoProbe), TRUE)

\* a variant that applies newOrbit even when there is no burn
executeActionApplyingOrbit(s, objs, action, lib) ==
    IF action.parameters = << >> THEN Returned(Outcome(s, objs, FALSE, NoProbe), FALSE)
    ELSE LET p == action.parameters[1]
         IN  IF Truthy(p.deltaV) /\ Truthy(p.burnDuration) THEN Burn(s, objs, p, lib)
             ELSE IF p.newOrbit # Undefined
             THEN Returned(updateSatellite(s, objs, p.newOrbit[1], lib), FALSE)
             ELSE Returned(Outcome(s, objs, FALSE, NoProbe), FALSE)

executeAction(s, objs, action, lib) ==
    IF action.parameters = << >> THEN Returned(Outcome(s, objs, FALSE, NoProbe), FALSE)
    ELSE LET p == action.parameters[1]
         IN  IF Truthy(p.deltaV) /\ Truthy(p.burnDuration) THEN Burn(s, objs, p, lib)
             ELSE Returned(Outcome(s, objs, FALSE, NoProbe), FALSE)

----------------------------------------------------------------------------
(* Collision risk: OrbitUtils.calculateDistance and predictCollisionRisk *)

\* a variant that measures the first propagator from the Earth's centre
calculateDistanceFromCentre(sat1, sat2) ==
    LET pos1 == getCurrentState(sat1).position
    IN  Sqrt(pos1.x * pos1.x + pos1.y * pos1.y + pos1.z * pos1.z)

\* the positions are finite in every call the model makes: the propagators of
\* the collision estimator keep the elements they were constructed with
calculateDistance(sat1, sat2) ==
    LET pos1 == getCurrentState(sat1).position
        pos2 == getCurrentState(sat2).position
    IN  Sqrt((pos1.x - pos2.x) * (pos1.x - pos2.x)
             + (pos1.y - pos2.y) * (pos1.y - pos2.y)
             + (pos1.z - pos2.z) * (pos1.z - pos2.z))

\* a variant with the comparison the other way round
TrackReversed(frame, distance) ==
    IF ~frame.minDistance.inf /\ distance > frame.minDistance.d
    THEN [frame EXCEPT !.minDistance = Fin(distance), !.timeToClosestApproach = frame.t]
    ELSE frame

\* the body of "if (distance < minDistance)" applied to the loop's locals
TrackMinimum(frame, distance) ==
    IF Less(distance, frame.minDistance)
    THEN [frame EXCEPT !.minDistance = Fin(distance), !.timeToClosestApproach = frame.t]
    ELSE frame

\* a variant whose thresholds belong to the higher-risk bucket
ClassifyInclusive(minDistance) ==
    IF ~minDistance.inf /\ minDistance.d <= 1
    THEN [risk |-> "high", probability |-> 100]
    ELSE IF ~minDistance.inf /\ minDistance.d <= 5
    THEN [risk |-> "medium", probability |-> 10]
    ELSE [risk |-> "low", probability |-> 1]

\* risk and probability from the minimum distance; probability in units of 1e-5
Classify(minDistance) ==
    IF ~minDistance.inf /\ minDistance.d < 1
    THEN [risk |-> "high", probability |-> 100]
    ELSE IF ~minDistance.inf /\ minDistance.d < 5
    THEN [risk |-> "medium", probability |-> 10]
    ELSE [risk |-> "low", probability |-> 1]

\* the horizons the callers pass, seconds
Horizons == {0, 60, 90}

\* the frame of a predictCollisionRisk that has not been entered
IdleFrame ==
    [ pc |-> "idle", sat1 |-> 1, sat2 |-> 2, timeHorizon |-> 0, t |-> 0,
      minDistance |-> Infinity, timeToClosestApproach |-> 0,
      risk |-> "low", probability |-> 0 ]

\* the loop of predictCollisionRisk run to its end on the propagators s1 and
\* s2: the frame at the return, or at the TypeError that ends the call
RECURSIVE PcrLoop(_, _, _, _)
PcrLoop(frame, s1, s2, objs) ==
    IF frame.t >= frame.timeHorizon
    THEN LET c == Classify(frame.minDistance)
         IN  [frame EXCEPT !.pc = "returned", !.risk = c.risk, !.probability = c.probability]
    ELSE LET o1 == calculatePosition(s1, objs, 60)
             o2 == calculatePosition(s2, objs, 60)
         IN  IF o1.threw \/ o2.threw THEN [frame EXCEPT !.pc = "threw"]
             ELSE PcrLoop([TrackMinimum(frame, calculateDistance(o1.sim, o2.sim))
                               EXCEPT !.t = frame.t + 60],
                          o1.sim, o2.sim, objs)

\* predictCollisionRisk(sat1, sat2, timeHorizon) as one evaluation
predictCollisionRisk(sat1, sat2, objs, timeHorizon) ==
    PcrLoop([IdleFrame EXCEPT !.pc = "loop", !.timeHorizon = timeHorizon], sat1, sat2, objs)


\* the time steps the callers pass to calculatePosition, seconds
TimeSteps == {0, 60}

----------------------------------------------------------------------------
(* The state: two propagators, the descriptor objects they were built from,
   the frame of a running predictCollisionRisk, the frame of a running
   solveKeplersEquation, the state of the hook useSatelliteData, and the
   record of calls *)

SimId == 1 .. 2

VARIABLES
    objects,  \* id -> Satellite: the callers' descriptor objects
    sims,     \* SimId -> the fields of a SatelliteSimulator
    pcr,      \* the locals of predictCollisionRisk and where it stands
    last,     \* the most recent call of a propagator method and its outcome
    hist,     \* per propagator: what has been done to it since construction
    trace     \* the distances predictCollisionRisk sampled, the times and the
              \* propagators as they were at entry

VARIABLES
    kepler    \* the locals of solveKeplersEquation and where it stands

VARIABLES
    satellites,          \* useState<Satellite[]>: the entries, in order
    simulators,          \* useState<Map>: id, instance and fields, in insertion order
    isSimulationRunning, \* useState<boolean>
    simulationInterval,  \* window.simulationInterval: 0 is undefined
    intervals,           \* the interval timers that are set and not cleared
    allocated,           \* how many simulators and timers have been created
    mounted,             \* the component that uses the hook is mounted
    hookLast             \* the most recent call of the hook

hookVars == << satellites, simulators, isSimulationRunning, simulationInterval,
               intervals, allocated, mounted, hookLast >>

VARIABLES
    form,                \* SatelliteForm: the load in progress and the onAdd it holds
    tracked              \* the ids added through onAdd and not removed since

formVars == << form, tracked >>

VARIABLES
    alerts,              \* useState<string[]>
    conjunctions,        \* useState<ConjunctionEvent[]>
    spaceWeatherAlerts,  \* useState<SpaceWeatherAlert[]>
    dismissedAlerts,     \* useState<Set<string>>
    threatAssessments,   \* useState<Map>: satellite id and threat level
    isOfflineMode,       \* useState<boolean>
    monitor,             \* what monitorThreats of the effect in force closes over
    passes,              \* the calls of monitorThreats that await their fetches
    settled,             \* whether every request of the pass that resumed last failed
    now                  \* Date.now(), in units of 30 s

monitorVars == << alerts, conjunctions, spaceWeatherAlerts, dismissedAlerts,
                  threatAssessments, isOfflineMode, monitor, passes, settled, now >>

VARIABLES
    isAutoManeuverEnabled, \* App: useState<boolean>
    maneuverCount,         \* AutomaticManeuverSystem: useState<number>
    autoDue,               \* the effect of AutomaticManeuverSystem is due to run
    executed               \* the calls of onExecuteAction by processCollisions

autoVars == << isAutoManeuverEnabled, maneuverCount, autoDue, executed >>

VARIABLES
    prediction           \* the locals of predictCollisions and where it stands

uiVars == << formVars, monitorVars, autoVars, prediction >>

vars == << objects, sims, pcr, last, hist, trace, kepler, hookVars, uiVars >>

NoAction == [parameters |-> << >>]

\* afterReset: the call before this one was reset() on the same propagator
Call(op, i, dt, action, ret, o, afterReset) ==
    [ op |-> op, sim |-> i, dt |-> dt, action |-> action, ret |-> ret,
      threw |-> o.threw, probe |-> o.probe, afterReset |-> afterReset ]

AfterReset(i) == last.sim = i /\ last.op = "reset"

\* no call of the hook yet
NoHookCall == [op |-> "none", threw |-> FALSE]

NoTrace == [samples |-> << >>, entry |-> << 0, 0 >>, copies |-> << >>]

\* SatelliteForm with no load in progress
NoLoad == [pc |-> "idle", closure |-> << >>]

\* the state monitorThreats closes over when the hook is mounted
NoClosure == [satellites |-> << >>, dismissedAlerts |-> { }, spaceWeatherAlerts |-> { }]

\* predictCollisions is not running
NoPrediction ==
    [ pc |-> "idle", i |-> 0, j |-> 0, t |-> 0, minDistance |-> Infinity,
      timeToClosestApproach |-> 0, equalAtEntry |-> FALSE, sample |-> << >>,
      collisionPredictions |-> << >>, calls |-> 0 ]

NewHistory(s) ==
    [ initPos |-> s.position, advanced |-> 0, moved |-> FALSE, replaced |-> FALSE, burns |-> 0 ]

\* the library's answers that matter to a propagator built from descriptor d
LibFor(d) == IF d.tle THEN LibOutcomes ELSE { CHOOSE l \in LibOutcomes : l.position = << >> }

\* the library's answers with a position and a velocity
FullOutcomes == { l \in LibOutcomes : l.position # << >> /\ l.velocity # << >> }

\* both propagators are constructed, the first from any descriptor of the
\* catalogue and the second from one of D2, the library answering it from L2
InitFrom(D2, L2) ==
    \E d1 \in DescId, d2 \in D2, l1 \in LibOutcomes, l2 \in L2 :
        LET o1 == NewSimulator(d1, Catalogue, l1)
            o2 == NewSimulator(d2, o1.objs, l2)
        IN  /\ objects = o2.objs
            /\ sims = << o1.sim, o2.sim >>
            /\ pcr = IdleFrame
            /\ last = Call("new", 2, 0, NoAction, "void", o2, FALSE)
            /\ hist = << NewHistory(o1.sim), NewHistory(o2.sim) >>
            /\ trace = NoTrace
            /\ kepler = KeplerIdle
            /\ satellites = << >>
            /\ simulators = << >>
            /\ isSimulationRunning = FALSE
            /\ simulationInterval = 0
            /\ intervals = { }
            /\ allocated = [simulator |-> 0, interval |-> 0]
            /\ mounted = TRUE
            /\ hookLast = NoHookCall
            /\ form = NoLoad
            /\ tracked = { }
            /\ alerts = << >>
            /\ conjunctions = << >>
            /\ spaceWeatherAlerts = << >>
            /\ dismissedAlerts = { }
            /\ threatAssessments = << >>
            /\ isOfflineMode = FALSE
            /\ monitor = NoClosure
            /\ passes = << >>
            /\ settled = "none"
            /\ now = 0
            /\ isAutoManeuverEnabled = FALSE
            /\ maneuverCount = 0
            /\ autoDue = FALSE
            /\ executed = << >>
            /\ prediction = NoPrediction

\* simulator.calculatePosition(dt), as the simulation tick calls it
Advance(i, dt) ==
    /\ pcr.pc # "loop"
    /\ sims[i].time + dt <= MaxTime
    /\ LET o == calculatePosition(sims[i], objects, dt)
       IN  /\ sims' = [sims EXCEPT ![i] = o.sim]
           /\ objects' = o.objs
           /\ last' = Call("calculatePosition", i, dt, NoAction, "void", o, AfterReset(i))
    /\ hist' = [hist EXCEPT ![i].advanced = @ + dt, ![i].moved = @ \/ dt > 0]
    /\ pcr' = IdleFrame
    /\ trace' = NoTrace
    /\ UNCHANGED << kepler, hookVars, uiVars >>

\* simulator.executeAction(action)
ExecuteAction(i, action, lib) ==
    /\ pcr.pc # "loop"
    /\ HasBurn(action) => hist[i].burns < MaxBurns /\ sims[i].time + 1 <= MaxTime
    /\ LET o == executeAction(sims[i], objects, action, lib)
       IN  /\ sims' = [sims EXCEPT ![i] = o.sim]
           /\ objects' = o.objs
           /\ last' = Call("executeAction", i, 0, action, IF o.ret THEN "true" ELSE "false", o, AfterReset(i))
           /\ hist' = [hist EXCEPT ![i].burns = IF o.ret THEN @ + 1 ELSE @,
                                   ![i].replaced = @ \/ (o.ret /\ action.parameters[1].newOrbit # Undefined)]
    /\ pcr' = IdleFrame
    /\ trace' = NoTrace
    /\ UNCHANGED << kepler, hookVars, uiVars >>

\* simulator.reset()
Reset(i, lib) ==
    /\ pcr.pc # "loop"
    /\ LET o == reset(sims[i], objects, lib)
       IN  /\ sims' = [sims EXCEPT ![i] = o.sim]
           /\ objects' = o.objs
           /\ last' = Call("reset", i, 0, NoAction, "void", o, AfterReset(i))
    /\ hist' = [hist EXCEPT ![i].advanced = 0]
    /\ pcr' = IdleFrame
    /\ trace' = NoTrace
    /\ UNCHANGED << kepler, hookVars, uiVars >>

\* the number of passes of "for (let t = 0; t < timeHorizon; t += 60)"
Passes(timeHorizon) == IF timeHorizon <= 0 THEN 0 ELSE (timeHorizon + 59) \div 60

\* OrbitUtils.predictCollisionRisk(sims[a], sims[b], timeHorizon): entry
PcrCall(a, b, timeHorizon) ==
    /\ pcr.pc # "loop"
    /\ a # b
    /\ sims[a].time + 60 * Passes(timeHorizon) <= MaxTime
    /\ sims[b].time + 60 * Passes(timeHorizon) <= MaxTime
    /\ pcr' = [IdleFrame EXCEPT !.pc = "loop", !.sat1 = a, !.sat2 = b, !.timeHorizon = timeHorizon]
    /\ trace' = [samples |-> << >>, entry |-> << sims[a].time, sims[b].time >>,
                 copies |-> << sims[a], sims[b] >>]
    /\ last' = Call("predictCollisionRisk", a, 0, NoAction, "void",
                    Outcome(sims[a], objects, FALSE, NoProbe), FALSE)
    /\ UNCHANGED << objects, sims, hist, kepler, hookVars, uiVars >>

\* one pass of the loop: both propagators step, the distance is sampled
PcrIterate ==
    /\ pcr.pc = "loop"
    /\ pcr.t < pcr.timeHorizon
    /\ LET a == pcr.sat1
           b == pcr.sat2
           o1 == calculatePosition(sims[a], objects, 60)
           o2 == calculatePosition(sims[b], objects, 60)
       IN  IF o1.threw
           THEN /\ sims' = [sims EXCEPT ![a] = o1.sim]
                /\ hist' = [hist EXCEPT ![a].advanced = @ + 60, ![a].moved = TRUE]
                /\ pcr' = [pcr EXCEPT !.pc = "threw"]
                /\ last' = [last EXCEPT !.threw = TRUE]
                /\ trace' = trace
           ELSE IF o2.threw
           THEN /\ sims' = [sims EXCEPT ![a] = o1.sim, ![b] = o2.sim]
                /\ hist' = [hist EXCEPT ![a].advanced = @ + 60, ![a].moved = TRUE,
                                        ![b].advanced = @ + 60, ![b].moved = TRUE]
                /\ pcr' = [pcr EXCEPT !.pc = "threw"]
                /\ last' = [last EXCEPT !.threw = TRUE]
                /\ trace' = trace
           ELSE LET distance == calculateDistance(o1.sim, o2.sim)
                IN  /\ sims' = [sims EXCEPT ![a] = o1.sim, ![b] = o2.sim]
                    /\ hist' = [hist EXCEPT ![a].advanced = @ + 60, ![a].moved = TRUE,
                                            ![b].advanced = @ + 60, ![b].moved = TRUE]
                    /\ pcr' = [TrackMinimum(pcr, distance) EXCEPT !.t = pcr.t + 60]
                    /\ last' = last
                    /\ trace' = [trace EXCEPT !.samples = Append(@, distance)]
    /\ UNCHANGED << objects, kepler, hookVars, uiVars >>

\* the loop is over: the risk is derived and the result returned
PcrReturn ==
    /\ pcr.pc = "loop"
    /\ pcr.t >= pcr.timeHorizon
    /\ LET c == Classify(pcr.minDistance)
       IN  pcr' = [pcr EXCEPT !.pc = "returned", !.risk = c.risk, !.probability = c.probability]
    /\ UNCHANGED << objects, sims, last, hist, trace, kepler, hookVars, uiVars >>

\* One propagator through its life: ticks, maneuvers and resets of propagator 1,
\* next to a second propagator that may have been built from the same object
Init == InitFrom({1, 5}, FullOutcomes)

Next ==
    \/ \E dt \in TimeSteps : Advance(1, dt)
    \/ \E action \in Actions, lib \in LibFor(Sat(sims[1], objects)) : ExecuteAction(1, action, lib)
    \/ \E lib \in LibFor(Sat(sims[1], objects)) : Reset(1, lib)

Spec == Init /\ [][Next]_vars

\* Two propagators under the simulation tick and the collision estimator
InitRisk == InitFrom(DescId, LibOutcomes)

NextRisk ==
    \/ \E i \in SimId, dt \in TimeSteps : Advance(i, dt)
    \/ \E a \in SimId, b \in SimId, timeHorizon \in Horizons : PcrCall(a, b, timeHorizon)
    \/ PcrIterate
    \/ PcrReturn

SpecRisk == InitRisk /\ [][NextRisk]_vars

----------------------------------------------------------------------------
(* solveKeplersEquation, one pass of its loop at a time *)

\* the mean anomalies calculatePosition passes, mdeg; the value is not finite
\* when the mean motion is not (a semi-major axis of 0 km or below)
MeanAnomalies ==
    { Angle(0), Angle(68), Angle(4080), Angle(30000), Angle(90000), Angle(150000),
      Angle(200000), Angle(359000), NotFinite }

\* the eccentricities calculatePosition passes, thousandths
Eccentricities == {0, 10, 200, 900}

\* solveKeplersEquation(meanAnomaly, eccentricity): entry
KeplerCall(meanAnomaly, eccentricity) ==
    /\ kepler.pc # "loop"
    /\ kepler' = KeplerEntry(meanAnomaly, eccentricity)
    /\ UNCHANGED << objects, sims, pcr, last, hist, trace, hookVars, uiVars >>

\* one pass of the loop body while i < maxIterations
KeplerIterate ==
    /\ kepler.pc = "loop"
    /\ kepler.i < maxIterations
    /\ kepler' = KeplerPass(kepler)
    /\ UNCHANGED << objects, sims, pcr, last, hist, trace, hookVars, uiVars >>

\* the loop condition fails: return eccentricAnomaly
KeplerExit ==
    /\ kepler.pc = "loop"
    /\ kepler.i >= maxIterations
    /\ kepler' = [kepler EXCEPT !.pc = "returned"]
    /\ UNCHANGED << objects, sims, pcr, last, hist, trace, hookVars, uiVars >>

\* The Kepler solver on the inputs above, next to two idle propagators
InitKepler == Init /\ sims[1].ref = 1 /\ sims[2].ref = 1 /\ kepler.pc = "idle"

NextKepler ==
    \/ \E meanAnomaly \in MeanAnomalies, eccentricity \in Eccentricities :
           KeplerCall(meanAnomaly, eccentricity)
    \/ KeplerIterate
    \/ KeplerExit

SpecKepler == InitKepler /\ [][NextKepler]_vars

----------------------------------------------------------------------------
(* The hook useSatelliteData: the satellite list, the simulator registry kept
   in step with it, and the simulation timer *)

\* the descriptors the form adds; the id of an entry is the index of its descriptor
HookDescs == {1, 4, 5}

\* a Satellite as handleAddSatellite receives it: no currentPosition,
\* currentVelocity or lastUpdated yet
Entry(d) ==
    [id |-> d, currentPosition |-> << >>, currentVelocity |-> << >>, lastUpdated |-> FALSE]

\* the ids of a list of entries or of a registry
Ids(seq) == { seq[k].id : k \in DOMAIN seq }

\* Map.has, Map.get and Map.set on a registry kept in insertion order
Has(map, id) == \E k \in DOMAIN map : map[k].id = id
Get(map, id) == map[CHOOSE k \in DOMAIN map : map[k].id = id]
MapSet(map, e) ==
    IF Has(map, e.id)
    THEN [k \in DOMAIN map |-> IF map[k].id = e.id THEN e ELSE map[k]]
    ELSE Append(map, e)

\* the member of a singleton: names a value that is used more than once
The(S) == CHOOSE x \in S : TRUE

\* one pass of satellites.forEach of the effect, for the entry sat: acc holds
\* newSimulators, the descriptor objects and the number of simulators created
SyncOne(sat, old, acc, lib) ==
    IF Has(old, sat.id)
    THEN [acc EXCEPT !.map = MapSet(@, Get(old, sat.id))]
    ELSE The({ [ map |-> MapSet(acc.map, [id |-> sat.id, inst |-> acc.created + 1, sim |-> o.sim]),
                 objs |-> o.objs,
                 created |-> acc.created + 1 ] :
               o \in { NewSimulator(sat.id, acc.objs, lib) } })

\* satellites.forEach of the effect from entry j on
RECURSIVE SyncFrom(_, _, _, _, _)
SyncFrom(j, sats, old, acc, lib) ==
    IF j > Len(sats) THEN acc
    ELSE The({ SyncFrom(j + 1, sats, old, next, lib) : next \in { SyncOne(sats[j], old, acc, lib) } })

\* a variant of the effect that builds every simulator anew
SyncSimulatorsAnew(sats, old, objs, created, lib) ==
    SyncFrom(1, sats, << >>, [map |-> << >>, objs |-> objs, created |-> created], lib)

\* the effect on [satellites]: the registry rebuilt from the list, a simulator
\* being kept when the registry of this render has the id
SyncSimulators(sats, old, objs, created, lib) ==
    SyncFrom(1, sats, old, [map |-> << >>, objs |-> objs, created |-> created], lib)

\* the entries after setSatellites(prevSats => prevSats.map(...)) for the
\* simulator of this id in the state it has now
Stamp(sats, id, state) ==
    [j \in DOMAIN sats |->
        IF sats[j].id = id
        THEN [sats[j] EXCEPT !.currentPosition = << state.position >>,
                             !.currentVelocity = << state.velocity >>,
                             !.lastUpdated = TRUE]
        ELSE sats[j]]

\* one pass of prevSimulators.forEach of the interval callback, for simulator
\* k: it is advanced by 60 s and its state copied into the entries with its
\* id, unless calculatePosition raises its TypeError
TickOne(k, acc) ==
    The({ IF o.threw
          THEN [acc EXCEPT !.simulators[k].sim = o.sim, !.objs = o.objs, !.threw = TRUE]
          ELSE [acc EXCEPT !.simulators[k].sim = o.sim, !.objs = o.objs,
                           !.satellites = Stamp(@, acc.simulators[k].id, getCurrentState(o.sim))] :
          o \in { calculatePosition(acc.simulators[k].sim, acc.objs, 60) } })

\* prevSimulators.forEach from simulator k on; a TypeError ends the callback
RECURSIVE TickFrom(_, _)
TickFrom(k, acc) ==
    IF k > Len(acc.simulators) \/ acc.threw THEN acc
    ELSE The({ TickFrom(k + 1, next) : next \in { TickOne(k, acc) } })

HookCall(op, threw) == [op |-> op, threw |-> threw]

\* handleAddSatellite(objects[d]) and the effect that follows the new list
AddSatellite(d, lib) ==
    /\ mounted
    /\ Len(satellites) < MaxSatellites
    /\ ~Has(simulators, d) => allocated.simulator < MaxSimulators
    /\ \E r \in { SyncSimulators(Append(satellites, Entry(d)), simulators, objects,
                                  allocated.simulator, lib) } :
           /\ satellites' = Append(satellites, Entry(d))
           /\ simulators' = r.map
           /\ objects' = r.objs
           /\ allocated' = [allocated EXCEPT !.simulator = r.created]
    /\ hookLast' = HookCall("add", FALSE)
    /\ UNCHANGED << sims, pcr, last, hist, trace, kepler,
                    isSimulationRunning, simulationInterval, intervals, mounted >>

\* handleRemoveSatellite(id) and the effect that follows the new list
RemoveSatellite(id) ==
    /\ mounted
    /\ id \in Ids(satellites)
    /\ \E sats \in { SelectSeq(satellites, LAMBDA sat : sat.id # id) } :
       \E r \in { SyncSimulators(sats, simulators, objects, allocated.simulator,
                                  CHOOSE l \in LibOutcomes : TRUE) } :
           /\ satellites' = sats
           /\ simulators' = r.map
           /\ objects' = r.objs
           /\ allocated' = [allocated EXCEPT !.simulator = r.created]
    /\ hookLast' = HookCall("remove", FALSE)
    /\ UNCHANGED << sims, pcr, last, hist, trace, kepler,
                    isSimulationRunning, simulationInterval, intervals, mounted >>

\* startSimulation(): a new interval whose id replaces window.simulationInterval
StartSimulation ==
    /\ mounted
    /\ allocated.interval < MaxIntervals
    /\ isSimulationRunning' = TRUE
    /\ allocated' = [allocated EXCEPT !.interval = @ + 1]
    /\ intervals' = intervals \union { allocated.interval + 1 }
    /\ simulationInterval' = allocated.interval + 1
    /\ hookLast' = HookCall("startSimulation", FALSE)
    /\ UNCHANGED << objects, sims, pcr, last, hist, trace, kepler,
                    satellites, simulators, mounted >>

\* stopSimulation(): clearInterval of the id in window.simulationInterval, if any
StopSimulation ==
    /\ mounted
    /\ isSimulationRunning' = FALSE
    /\ intervals' = IF simulationInterval # 0 THEN intervals \ { simulationInterval }
                    ELSE intervals
    /\ hookLast' = HookCall("stopSimulation", FALSE)
    /\ UNCHANGED << objects, sims, pcr, last, hist, trace, kepler,
                    satellites, simulators, simulationInterval, allocated, mounted >>

\* the interval timer fires: the updater passed to setSimulators runs, then
\* the effect that follows the new list; an updater that throws takes the
\* component down with the state as it was and the simulators as far as they got
Tick(timer) ==
    /\ mounted
    /\ timer \in intervals
    /\ \A k \in DOMAIN simulators : simulators[k].sim.time + 60 <= MaxTime
    /\ \E t \in { TickFrom(1, [simulators |-> simulators, satellites |-> satellites,
                                 objs |-> objects, threw |-> FALSE]) } :
       \E r \in { SyncSimulators(t.satellites, t.simulators, t.objs, allocated.simulator,
                                  CHOOSE l \in LibOutcomes : TRUE) } :
           IF t.threw
           THEN /\ simulators' = t.simulators
                /\ satellites' = satellites
                /\ objects' = t.objs
                /\ allocated' = allocated
                /\ mounted' = FALSE
                /\ hookLast' = HookCall("tick", TRUE)
           ELSE /\ simulators' = r.map
                /\ satellites' = t.satellites
                /\ objects' = r.objs
                /\ allocated' = [allocated EXCEPT !.simulator = r.created]
                /\ mounted' = TRUE
                /\ hookLast' = HookCall("tick", FALSE)
    /\ UNCHANGED << sims, pcr, last, hist, trace, kepler,
                    isSimulationRunning, simulationInterval, intervals >>

\* The hook under the form, the list, the control panel and the timers
InitHook == Init /\ sims[1].ref = 1 /\ sims[2].ref = 1

NextHook ==
    \/ \E d \in HookDescs : \E lib \in LibFor(Catalogue[d]) :
           AddSatellite(d, lib) /\ UNCHANGED uiVars
    \/ \E id \in HookDescs : RemoveSatellite(id) /\ UNCHANGED uiVars
    \/ StartSimulation /\ UNCHANGED uiVars
    \/ StopSimulation /\ UNCHANGED uiVars
    \/ \E timer \in intervals : Tick(timer) /\ UNCHANGED uiVars

SpecHook == InitHook /\ [][NextHook]_vars

----------------------------------------------------------------------------
(* App and SatelliteForm: the calls of handleAddSatellite and
   handleRemoveSatellite. A handler belongs to the render that created it and
   holds the list of that render; the monitoring effect writes neither the
   list nor the registry and is followed further below. *)

\* the descriptors a manual submission builds, the one a load by NORAD id
\* builds, and the ones a group of CelesTrak delivers, in order
ManualDescs == {1, 4}
NoradDesc == 5
Group == << 7, 5 >>

\* setSatellites(sats) with a list, and the effect that follows the new list
SetSatellites(sats, lib) ==
    \E r \in { SyncSimulators(sats, simulators, objects, allocated.simulator, lib) } :
        /\ r.created <= MaxSimulators
        /\ satellites' = sats
        /\ simulators' = r.map
        /\ objects' = r.objs
        /\ allocated' = [allocated EXCEPT !.simulator = r.created]

\* handleManualSubmit: onAdd of the render on screen, called at once
handleManualSubmit(d, lib) ==
    /\ AddSatellite(d, lib)
    /\ tracked' = tracked \union {d}
    /\ UNCHANGED << form, monitorVars, autoVars, prediction >>

\* handleRemoveSatellite(id) of the render on screen
handleRemoveSatellite(id) ==
    /\ RemoveSatellite(id)
    /\ tracked' = tracked \ {id}
    /\ UNCHANGED << form, monitorVars, autoVars, prediction >>

\* handleLoadByNoradId or handleLoadGroup up to its await: the buttons are
\* disabled and the handler keeps the onAdd of its render
LoadStarted(kind) ==
    /\ mounted
    /\ form.pc = "idle"
    /\ form' = [pc |-> kind, closure |-> satellites]
    /\ hookLast' = HookCall("load", FALSE)
    /\ UNCHANGED << objects, sims, pcr, last, hist, trace, kepler,
                    satellites, simulators, isSimulationRunning, simulationInterval,
                    intervals, allocated, mounted,
                    tracked, monitorVars, autoVars, prediction >>

\* the entries onAdd is called with, in order: one per descriptor for which
\* the library has a position
Loaded(descs, lib) ==
    IF lib.position = << >> THEN << >> ELSE [k \in DOMAIN descs |-> Entry(descs[k])]

\* handleAddSatellite of one render called with each entry of added in turn:
\* every call is setSatellites([...satellites, satellite]) on the list of that
\* render, and the last call decides
handleAddSatellite(closure, added) ==
    Append(closure, added[Len(added)])

\* the rest of handleLoadByNoradId or handleLoadGroup, after its await: lib is
\* what the library tells the form, lib2 what it tells the simulators built
\* by the effect
LoadResolved(lib, lib2) ==
    /\ mounted
    /\ form.pc # "idle"
    /\ \E added \in { Loaded(IF form.pc = "norad" THEN << NoradDesc >> ELSE Group, lib) } :
        IF added = << >>
        THEN UNCHANGED << satellites, simulators, objects, allocated, tracked >>
        ELSE /\ Len(form.closure) < MaxSatellites
             /\ SetSatellites(handleAddSatellite(form.closure, added), lib2)
             /\ tracked' = tracked \union Ids(added)
    /\ form' = NoLoad
    /\ hookLast' = HookCall("add", FALSE)
    /\ UNCHANGED << sims, pcr, last, hist, trace, kepler,
                    isSimulationRunning, simulationInterval, intervals, mounted,
                    monitorVars, autoVars, prediction >>

\* The form, the list and the simulation timer
InitForm == InitHook

NextForm ==
    \/ \E d \in ManualDescs : \E lib \in LibFor(Catalogue[d]) : handleManualSubmit(d, lib)
    \/ \E id \in DOMAIN Catalogue : handleRemoveSatellite(id)
    \/ \E kind \in {"norad", "group"} : LoadStarted(kind)
    \/ \E lib \in LibOutcomes, lib2 \in FullOutcomes : LoadResolved(lib, lib2)
    \/ StartSimulation /\ UNCHANGED uiVars
    \/ \E timer \in intervals : Tick(timer) /\ UNCHANGED uiVars

SpecForm == InitForm /\ [][NextForm]_vars

----------------------------------------------------------------------------
(* Threat monitoring: the effect of useSatelliteData on [satellites], its
   calls of monitorThreats, and the alerts App shows and dismisses. Times are
   in units of 30 s, the period of the monitoring timer. *)

\* 1000 * 60 * 60 ms
Hour == 120

\* the id of an alert: the text of its template, kept by its parts
AlertId(kind, sat, obj, time) == [kind |-> kind, sat |-> sat, obj |-> obj, time |-> time]

\* fetchConjunctionData() called at the time at: the satellites are the ones a
\* load by NORAD id gives the ids 25544, 43013 and 43175
fetchConjunctionData(at) ==
    << [satelliteId |-> 5, objectName |-> "DEBRIS-2024-001", tca |-> at + Hour, risk |-> "high"],
       [satelliteId |-> 5, objectName |-> "DEBRIS-2024-045", tca |-> at + 24 * Hour, risk |-> "medium"],
       [satelliteId |-> 43013, objectName |-> "DEBRIS-2024-078", tca |-> at + 2 * Hour, risk |-> "medium"],
       [satelliteId |-> 7, objectName |-> "DEBRIS-2024-123", tca |-> at + 48 * Hour, risk |-> "low"] >>

\* what fetchLatestCMEPrediction resolves to: predictions with the one named
\* 'Average of all Methods', predictions without it, or null after an error
CmeOutcomes == {"average", "others", "null"}

\* how fetchSpaceWeatherAlerts settles: with the data, with [] after a network
\* error, or rejected after any other error
WeatherOutcomes == {"data", "empty", "rejected"}

\* the four results of Promise.allSettled
Settled(cme, weather) ==
    [ conjunction |-> "fulfilled", cme |-> "fulfilled", geomagnetic |-> "fulfilled",
      weather |-> IF weather = "rejected" THEN "rejected" ELSE "fulfilled" ]

\* the last entry of fetchGeomagneticStorm(): time_tag 12:10, kp_index 7.5
latestKp == [time_tag |-> 1210, kp_index |-> 75]

\* the state a call of monitorThreats closes over, from the render its effect
\* ran in: of the satellites and the space weather alerts it reads the ids only
Closure(sats) ==
    [ satellites |-> [k \in DOMAIN sats |-> sats[k].id],
      dismissedAlerts |-> dismissedAlerts,
      spaceWeatherAlerts |-> { spaceWeatherAlerts[k].id : k \in DOMAIN spaceWeatherAlerts } ]

\* conjunctionData.forEach: the events of satellites in the list that are not
\* dismissed, with their unique id
NewConjunctions(p) ==
    LET data == fetchConjunctionData(p.at)
        enhanced == [k \in DOMAIN data |->
                        [ id |-> AlertId("conj", data[k].satelliteId, data[k].objectName, data[k].tca),
                          satelliteId |-> data[k].satelliteId, objectName |-> data[k].objectName,
                          tca |-> data[k].tca, risk |-> data[k].risk ]]
    IN  SelectSeq(enhanced, LAMBDA c :
            /\ \E k \in DOMAIN p.closure.satellites : p.closure.satellites[k] = c.satelliteId
            /\ c.id \notin p.closure.dismissedAlerts)

\* the CME alert of a pass
NewSpaceWeatherAlerts(p, cme) ==
    IF cme = "average" /\ Len(p.closure.satellites) > 0
    THEN << [id |-> AlertId("cme-Average of all Methods", 0, "", 0), type |-> "cme"] >>
    ELSE << >>

\* the geomagnetic alert of a pass: none when its id is dismissed or among the
\* spaceWeatherAlerts the pass closes over
NewGeomagAlerts(p) ==
    LET geoId == AlertId("geomag", 0, "", latestKp.time_tag)
    IN  IF latestKp.kp_index <= 50 THEN << >>
        ELSE IF \/ geoId \in p.closure.dismissedAlerts
                \/ geoId \in p.closure.spaceWeatherAlerts
        THEN << >>
        ELSE << [id |-> geoId, type |-> "geomagnetic"] >>

\* the alert lines of a pass
PassAlerts(newConjunctions, newSpaceWeatherAlerts, newGeomagAlerts) ==
    LET risky == SelectSeq(newConjunctions, LAMBDA c : c.risk # "low")
    IN  [k \in DOMAIN risky |-> IF risky[k].risk = "high" THEN "HIGH RISK" ELSE "MEDIUM RISK"]
        \o [k \in DOMAIN newSpaceWeatherAlerts |-> "CME PREDICTION"]
        \o [k \in DOMAIN newGeomagAlerts |-> "GEOMAGNETIC STORM"]

\* updateThreatAssessments(conjunctions) of the render whose list is sats: an
\* entry for every satellite of the list that has a conjunction
updateThreatAssessments(sats, cs) ==
    LET assessed == SelectSeq(sats, LAMBDA id : \E k \in DOMAIN cs : cs[k].satelliteId = id)
    IN  [k \in DOMAIN assessed |->
            [ satelliteId |-> assessed[k],
              threatLevel |->
                  IF \E j \in DOMAIN cs : cs[j].satelliteId = assessed[k] /\ cs[j].risk = "high"
                  THEN "critical"
                  ELSE IF \E j \in DOMAIN cs : cs[j].satelliteId = assessed[k] /\ cs[j].risk = "medium"
                  THEN "high" ELSE "medium" ]]

\* monitorThreats() up to its return or its await, for the state it closes
\* over; current is the alert lines before the call
monitorThreats(closure, current) ==
    IF closure.satellites = << >>
    THEN /\ alerts' = << >>
         /\ conjunctions' = << >>
         /\ spaceWeatherAlerts' = << >>
         /\ threatAssessments' = << >>
         /\ UNCHANGED << isOfflineMode, passes, settled >>
    ELSE /\ Len(passes) < MaxPasses
         /\ passes' = Append(passes, [closure |-> closure, at |-> now])
         /\ alerts' = current
         /\ UNCHANGED << conjunctions, spaceWeatherAlerts, threatAssessments,
                         isOfflineMode, settled >>

\* the effect on [satellites] after the list became sats: the timer of the
\* effect before is cleared, monitorThreats of this render is called and put
\* on a new timer
MonitorEffect(sats, current) ==
    \E closure \in { Closure(sats) } :
        /\ monitor' = closure
        /\ monitorThreats(closure, current)

\* mockConjunctions of a render
mockConjunctions(sats, at) ==
    IF Len(sats) > 0
    THEN << [ id |-> AlertId("conjunction-1", 0, "", 0), satelliteId |-> sats[1].id,
              objectName |-> "Cosmos-1408 Debris", tca |-> at + 2 * Hour, risk |-> "high" ] >>
    ELSE << >>

\* activeConjunctions and activeSpaceWeatherAlerts of a render
activeConjunctions(cs, sats, dismissed, at) ==
    SelectSeq(cs \o mockConjunctions(sats, at), LAMBDA c : c.id \notin dismissed)

\* a variant that shows the dismissed alerts too
activeSpaceWeatherAlertsUnfiltered(swa, dismissed) == swa

activeSpaceWeatherAlerts(swa, dismissed) ==
    SelectSeq(swa, LAMBDA alert : alert.id \notin dismissed)


----------------------------------------------------------------------------
(* AutomaticManeuverSystem as App wires it: conjunctions is
   activeConjunctions, onExecuteAction is handleExecuteAction *)

\* the order of conjunctions.sort: risk descending, then the earlier TCA
riskOrder(risk) == IF risk = "high" THEN 3 ELSE IF risk = "medium" THEN 2 ELSE 1

Sorted(cs) ==
    SortSeq(cs, LAMBDA a, b :
        \/ riskOrder(a.risk) > riskOrder(b.risk)
        \/ riskOrder(a.risk) = riskOrder(b.risk) /\ a.tca < b.tca)

\* a variant that plans a maneuver however near the closest approach is
generateAutomaticManeuverAtOnce(conjunction, at) ==
    IF conjunction.risk = "high"
    THEN << [parameters |-> << Parameters(<<2>>, <<60>>, Undefined) >>] >>
    ELSE IF conjunction.risk = "medium"
    THEN << [parameters |-> << Parameters(<<1>>, <<30>>, Undefined) >>] >>
    ELSE << >>

\* generateAutomaticManeuver(conjunction, satellite) at the time at: null (<<>>)
\* or the action, of which executeAction reads deltaV and burnDuration
generateAutomaticManeuver(conjunction, at) ==
    IF conjunction.tca - at < Hour THEN << >>
    ELSE IF conjunction.risk = "high"
    THEN << [parameters |-> << Parameters(<<2>>, <<60>>, Undefined) >>] >>
    ELSE IF conjunction.risk = "medium"
    THEN << [parameters |-> << Parameters(<<1>>, <<30>>, Undefined) >>] >>
    ELSE << >>

\* executeAction(satelliteId, action) of the hook on the state acc: ret is the
\* boolean it returns
hookExecuteAction(acc, satelliteId, action) ==
    IF ~Has(acc.simulators, satelliteId) THEN [acc EXCEPT !.ret = FALSE]
    ELSE The({ [acc EXCEPT
                  !.simulators = MapSet(@, [Get(@, satelliteId) EXCEPT !.sim = o.sim]),
                  !.objs = o.objs,
                  !.satellites =
                      IF o.ret
                      THEN [j \in DOMAIN @ |-> IF @[j].id = satelliteId
                                               THEN [@[j] EXCEPT !.lastUpdated = TRUE]
                                               ELSE @[j]]
                      ELSE @,
                  !.alerts = IF o.ret THEN Append(@, "Action executed") ELSE @,
                  !.changed = @ \/ o.ret,
                  !.ret = o.ret] :
               o \in { executeAction(Get(acc.simulators, satelliteId).sim, acc.objs, action,
                                     CHOOSE l \in LibOutcomes : TRUE) } })

\* handleExecuteAction(satelliteId, action) of App: the hook's executeAction is
\* called and a dialog shown; the function has no return statement, so
\* returns is undefined
handleExecuteAction(acc, satelliteId, action) ==
    [hookExecuteAction(acc, satelliteId, action) EXCEPT !.returns = Undefined]

\* the record of one call of onExecuteAction, as the state is at the call
Invocation(c, action, acc) ==
    [ conjunction |-> c.id, satelliteId |-> c.satelliteId, risk |-> c.risk,
      deltaV |-> action.parameters[1].deltaV[1],
      burnDuration |-> action.parameters[1].burnDuration[1],
      enabled |-> isAutoManeuverEnabled,
      inList |-> c.satelliteId \in Ids(satellites),
      toTCA |-> c.tca - now,
      returned |-> acc.ret,
      again |-> \E k \in DOMAIN acc.executed :
                    acc.executed[k].conjunction = c.id /\ acc.executed[k].live,
      live |-> TRUE ]

\* one pass of "for (const conjunction of sortedConjunctions)"
ProcessOne(c, acc) ==
    IF c.risk = "low" THEN acc
    ELSE IF ~Has(satellites, c.satelliteId) THEN acc
    ELSE The({ IF maneuver = << >> THEN acc
               ELSE The({ [r EXCEPT !.executed = Append(@, Invocation(c, maneuver[1], r)),
                                    !.counted = IF r.returns # Undefined /\ r.returns[1]
                                                THEN @ + 1 ELSE @] :
                          r \in { handleExecuteAction(acc, c.satelliteId, maneuver[1]) } }) :
               maneuver \in { generateAutomaticManeuver(c, now) } })

RECURSIVE ProcessFrom(_, _, _)
ProcessFrom(k, cs, acc) ==
    IF k > Len(cs) THEN acc
    ELSE The({ ProcessFrom(k + 1, cs, next) : next \in { ProcessOne(cs[k], acc) } })

\* the calls of onExecuteAction whose conjunction has stayed in the active
\* list, with automatic maneuvers enabled, since the call
Retire(log, active, enabled) ==
    [k \in DOMAIN log |->
        [log[k] EXCEPT !.live = @ /\ enabled
                                  /\ \E j \in DOMAIN active : active[j].id = log[k].conjunction]]

\* App renders with the state after the step: AutomaticManeuverSystem gets a
\* new conjunctions array and a new onExecuteAction, so its effect runs again
\* and calls processCollisions unless it returns early
Rendered ==
    \E active \in { activeConjunctions(conjunctions', satellites', dismissedAlerts', now') } :
        /\ autoDue' = (isAutoManeuverEnabled' /\ active # << >>)
        /\ executed' = Retire(executed, active, isAutoManeuverEnabled')


----------------------------------------------------------------------------
(* App: the list, the monitoring passes, the alert panel and the automatic
   maneuvers, one handler, timer or resumed call at a time. The simulation is
   not started here. *)

\* the descriptors added here: under the alert panel the satellite loaded as
\* NORAD id 25544, under the automatic maneuvers a second one besides, whose
\* conjunction is of low risk
AppDescs == {5}
AutoDescs == {5, 7}

\* a satellite is added from the render on screen; the effects on
\* [satellites] follow
AppAddSatellite(d, lib) ==
    /\ ~autoDue
    /\ AddSatellite(d, lib)
    /\ tracked' = tracked \union {d}
    /\ MonitorEffect(satellites', alerts)
    /\ UNCHANGED << form, dismissedAlerts, now, isAutoManeuverEnabled, maneuverCount,
                    prediction >>
    /\ Rendered

\* handleRemoveSatellite(id) from the render on screen; the effects on
\* [satellites] follow
AppRemoveSatellite(id) ==
    /\ ~autoDue
    /\ RemoveSatellite(id)
    /\ tracked' = tracked \ {id}
    /\ MonitorEffect(satellites', alerts)
    /\ UNCHANGED << form, dismissedAlerts, now, isAutoManeuverEnabled, maneuverCount,
                    prediction >>
    /\ Rendered

\* the timer of the monitoring effect in force fires, 30 s after it was set
\* or fired last
MonitorInterval ==
    /\ mounted
    /\ ~autoDue
    /\ now < MaxNow
    /\ now' = now + 1
    /\ monitorThreats(monitor, alerts)
    /\ UNCHANGED << objects, sims, pcr, last, hist, trace, kepler, hookVars,
                    formVars, dismissedAlerts, monitor,
                    isAutoManeuverEnabled, maneuverCount, prediction >>
    /\ Rendered

\* a call of monitorThreats resumes after Promise.allSettled with what the
\* CME and the weather request brought, and runs to its end
MonitorResumed(k, cme, weather) ==
    /\ mounted
    /\ ~autoDue
    /\ k \in DOMAIN passes
    /\ \E p \in { passes[k] } :
       \E nc \in { NewConjunctions(p) } :
       \E nsw \in { NewSpaceWeatherAlerts(p, cme) } :
       \E ng \in { NewGeomagAlerts(p) } :
           /\ Len(spaceWeatherAlerts) + Len(nsw) + Len(ng) <= MaxAlerts
           /\ isOfflineMode' = \A source \in DOMAIN Settled(cme, weather) :
                                   Settled(cme, weather)[source] = "rejected"
           /\ conjunctions' = nc
           /\ spaceWeatherAlerts' = spaceWeatherAlerts \o nsw \o ng
           /\ alerts' = PassAlerts(nc, nsw, ng)
           /\ threatAssessments' = updateThreatAssessments(p.closure.satellites, nc)
           /\ settled' = IF cme = "null" /\ weather # "data" THEN "failed" ELSE "answered"
    /\ passes' = SubSeq(passes, 1, k - 1) \o SubSeq(passes, k + 1, Len(passes))
    /\ UNCHANGED << objects, sims, pcr, last, hist, trace, kepler, hookVars,
                    formVars, dismissedAlerts, monitor, now,
                    isAutoManeuverEnabled, maneuverCount, prediction >>
    /\ Rendered

\* the ids of the alerts AlertPanel shows with a dismiss button
Shown ==
    LET cs == activeConjunctions(conjunctions, satellites, dismissedAlerts, now)
        ws == activeSpaceWeatherAlerts(spaceWeatherAlerts, dismissedAlerts)
    IN  { cs[k].id : k \in DOMAIN cs } \union { ws[k].id : k \in DOMAIN ws }

\* AlertPanel.handleDismiss(alertId) and handleDismissAlert(alertId) of App
handleDismissAlert(alertId) ==
    /\ mounted
    /\ ~autoDue
    /\ alertId \in Shown
    /\ Cardinality(dismissedAlerts) < MaxDismissed
    /\ dismissedAlerts' = dismissedAlerts \union {alertId}
    /\ UNCHANGED << objects, sims, pcr, last, hist, trace, kepler, hookVars,
                    formVars, alerts, conjunctions, spaceWeatherAlerts, threatAssessments,
                    isOfflineMode, monitor, passes, settled, now,
                    isAutoManeuverEnabled, maneuverCount, prediction >>
    /\ Rendered

\* toggleAutoManeuver()
toggleAutoManeuver ==
    /\ mounted
    /\ ~autoDue
    /\ isAutoManeuverEnabled' = ~isAutoManeuverEnabled
    /\ UNCHANGED << objects, sims, pcr, last, hist, trace, kepler, hookVars,
                    formVars, monitorVars, maneuverCount, prediction >>
    /\ Rendered

\* processCollisions(), called by the effect of AutomaticManeuverSystem when
\* it runs and by its 5 s timer: with handleExecuteAction as onExecuteAction
\* success is undefined, so the call never waits. A maneuver that the hook
\* executed sets the list and the alerts: the effects on [satellites] follow,
\* the registry staying as it is, and App renders again
processCollisions ==
    /\ mounted
    /\ isAutoManeuverEnabled
    /\ Len(executed) < MaxManeuvers
    /\ \E active \in { activeConjunctions(conjunctions, satellites, dismissedAlerts, now) } :
        /\ active # << >>
        /\ \E r \in { ProcessFrom(1, Sorted(active),
                                  [ simulators |-> simulators, objs |-> objects,
                                    satellites |-> satellites, alerts |-> alerts,
                                    executed |-> executed, counted |-> 0, changed |-> FALSE,
                                    ret |-> FALSE, returns |-> Undefined ]) } :
            /\ simulators' = r.simulators
            /\ objects' = r.objs
            /\ satellites' = r.satellites
            /\ maneuverCount' = maneuverCount + r.counted
            /\ executed' = r.executed
            /\ autoDue' = r.changed
            /\ IF r.changed
               THEN MonitorEffect(r.satellites, r.alerts)
               ELSE UNCHANGED << alerts, conjunctions, spaceWeatherAlerts, threatAssessments,
                                 isOfflineMode, monitor, passes, settled >>
    /\ UNCHANGED << sims, pcr, last, hist, trace, kepler,
                    isSimulationRunning, simulationInterval, intervals, allocated, mounted,
                    hookLast, formVars, dismissedAlerts, now,
                    isAutoManeuverEnabled, prediction >>

InitApp == InitHook

NextApp ==
    \/ \E d \in AppDescs \ Ids(satellites) : \E lib \in FullOutcomes : AppAddSatellite(d, lib)
    \/ \E id \in AppDescs : AppRemoveSatellite(id)
    \/ MonitorInterval
    \/ \E k \in DOMAIN passes, cme \in CmeOutcomes, weather \in WeatherOutcomes :
           MonitorResumed(k, cme, weather)
    \/ \E alertId \in Shown : handleDismissAlert(alertId)

SpecApp == InitApp /\ [][NextApp]_vars

\* The automatic maneuvers next to the list and the monitoring passes, no
\* alert being dismissed and the CME and weather requests answering
NextAuto ==
    \/ \E d \in AutoDescs \ Ids(satellites) : \E lib \in FullOutcomes : AppAddSatellite(d, lib)
    \/ \E id \in AutoDescs : AppRemoveSatellite(id)
    \/ MonitorInterval
    \/ \E k \in DOMAIN passes : MonitorResumed(k, "others", "data")
    \/ toggleAutoManeuver
    \/ processCollisions

SpecAuto == InitApp /\ [][NextAuto]_vars

----------------------------------------------------------------------------
(* predictCollisions of the hook: OrbitUtils.predictCollisionRisk with its
   default horizon on the simulators of every pair of the list, one pass of
   the inner loop at a time. The call is synchronous: nothing else runs until
   it returns or its TypeError leaves the handler. *)

\* the default of timeHorizon, seconds
DefaultHorizon == 3600

\* the descriptors of the satellites under prediction: three on elements, one
\* on a TLE
FleetDescs == {1, 2, 3, 5}

\* every simulator of the registry has the same elapsed time
EqualElapsed(map) == \A a, b \in DOMAIN map : map[a].sim.time = map[b].sim.time

\* the place of the simulator of this id in the registry
Index(map, id) == CHOOSE k \in DOMAIN map : map[k].id = id

\* the pair the two for loops visit after (i, j) in a list of n entries
NextPair(i, j, n) == IF j < n THEN << i, j + 1 >> ELSE << i + 1, i + 2 >>

\* the text pushed for a prediction whose risk is not low
CollisionText(risk) == IF risk = "high" THEN "HIGH collision risk" ELSE "MEDIUM collision risk"

\* handleAddSatellite(objects[d]) of the render on screen and the effect that
\* follows, while no prediction is running
FleetAddSatellite(d, lib) ==
    /\ mounted
    /\ prediction.pc # "pair"
    /\ SetSatellites(handleAddSatellite(satellites, << Entry(d) >>), lib)
    /\ hookLast' = HookCall("add", FALSE)
    /\ UNCHANGED << sims, pcr, last, hist, trace, kepler, isSimulationRunning,
                    simulationInterval, intervals, mounted, uiVars >>

\* predictCollisions(): the first pair is entered, or the call returns at once
\* when the list has no pair
predictCollisions ==
    /\ mounted
    /\ prediction.pc # "pair"
    /\ prediction.calls < MaxCalls
    /\ prediction' = [NoPrediction EXCEPT
                          !.pc = IF Len(satellites) >= 2 THEN "pair" ELSE "returned",
                          !.i = 1, !.j = 2,
                          !.equalAtEntry = EqualElapsed(simulators),
                          !.calls = prediction.calls + 1]
    /\ UNCHANGED << objects, sims, pcr, last, hist, trace, kepler, hookVars,
                    formVars, monitorVars, autoVars >>

\* sat1 && sat2 for the pair the loops are at
BothPresent ==
    /\ Has(simulators, satellites[prediction.i].id)
    /\ Has(simulators, satellites[prediction.j].id)

\* one pass of the loop of predictCollisionRisk for the pair (i, j): both
\* simulators of the registry step by 60 s and the distance is sampled; sample
\* keeps the two elapsed times at which the positions were taken
PredictIterate ==
    /\ prediction.pc = "pair"
    /\ BothPresent
    /\ prediction.t < DefaultHorizon
    /\ \E a \in { Index(simulators, satellites[prediction.i].id) },
          b \in { Index(simulators, satellites[prediction.j].id) } :
       \E o1 \in { calculatePosition(simulators[a].sim, objects, 60) } :
       \E o2 \in { calculatePosition(simulators[b].sim, objects, 60) } :
           IF o1.threw
           THEN /\ simulators' = [simulators EXCEPT ![a].sim = o1.sim]
                /\ prediction' = [prediction EXCEPT !.pc = "threw"]
           ELSE IF o2.threw
           THEN /\ simulators' = [simulators EXCEPT ![a].sim = o1.sim, ![b].sim = o2.sim]
                /\ prediction' = [prediction EXCEPT !.pc = "threw"]
           ELSE /\ simulators' = [simulators EXCEPT ![a].sim = o1.sim, ![b].sim = o2.sim]
                /\ prediction' = [TrackMinimum(prediction, calculateDistance(o1.sim, o2.sim))
                                      EXCEPT !.t = prediction.t + 60,
                                             !.sample = << o1.sim.time, o2.sim.time >>]
    /\ UNCHANGED << objects, sims, pcr, last, hist, trace, kepler, satellites,
                    isSimulationRunning, simulationInterval, intervals, allocated,
                    mounted, hookLast, formVars, monitorVars, autoVars >>

\* the loop of a pair is over: the risk is derived, the text pushed unless the
\* risk is low, and the loops go to the next pair; after the last pair
\* setAlerts appends what was pushed and the call returns
PredictPairEnd ==
    /\ prediction.pc = "pair"
    /\ BothPresent => prediction.t >= DefaultHorizon
    /\ \E c \in { Classify(prediction.minDistance) },
          p \in { NextPair(prediction.i, prediction.j, Len(satellites)) } :
       \E pushed \in { IF BothPresent /\ c.risk # "low"
                       THEN Append(prediction.collisionPredictions, CollisionText(c.risk))
                       ELSE prediction.collisionPredictions } :
           IF p[1] >= Len(satellites)
           THEN /\ prediction' = [prediction EXCEPT !.pc = "returned", !.sample = << >>,
                                                    !.collisionPredictions = pushed]
                /\ alerts' = alerts \o pushed
           ELSE /\ prediction' = [prediction EXCEPT !.i = p[1], !.j = p[2], !.t = 0,
                                                    !.minDistance = Infinity,
                                                    !.timeToClosestApproach = 0,
                                                    !.sample = << >>,
                                                    !.collisionPredictions = pushed]
                /\ alerts' = alerts
    /\ UNCHANGED << objects, sims, pcr, last, hist, trace, kepler, hookVars, formVars,
                    conjunctions, spaceWeatherAlerts, dismissedAlerts, threatAssessments,
                    isOfflineMode, monitor, passes, settled, now, autoVars >>

\* The list, the registry and the "Predict Collisions" button
InitCollisions == InitHook

NextCollisions ==
    \/ \E d \in FleetDescs \ Ids(satellites) : \E lib \in FullOutcomes : FleetAddSatellite(d, lib)
    \/ predictCollisions
    \/ PredictIterate
    \/ PredictPairEnd

SpecCollisions == InitCollisions /\ [][NextCollisions]_vars

----------------------------------------------------------------------------
(* Properties of predictCollisionRisk, checked under SpecRisk *)

PcrOver == pcr.pc \in {"returned", "threw"}

\* the propagator was built from a two-line element pair
FromTLE(i) == Sat(sims[i], objects).tle

\* the smallest of a non-empty sequence of distances
MinOf(samples) == CHOOSE m \in {samples[k] : k \in DOMAIN samples} :
                      \A k \in DOMAIN samples : m <= samples[k]

\* C1: a call of predictCollisionRisk with a horizon H > 0 steps both
\* propagators ceil(H / 60) times by 60 s and then returns, each elapsed
\* time being 60 * ceil(H / 60) more than at entry.
C1_BothAdvancedThenReturns ==
    (PcrOver /\ pcr.timeHorizon > 0) =>
        /\ pcr.pc = "returned"
        /\ Len(trace.samples) = Passes(pcr.timeHorizon)
        /\ sims[pcr.sat1].time = trace.entry[1] + 60 * Passes(pcr.timeHorizon)
        /\ sims[pcr.sat2].time = trace.entry[2] + 60 * Passes(pcr.timeHorizon)

\* C2: the minDistance returned is the minimum of the distances sampled, one
\* after each 60 s step; no sampled distance is smaller.
C2_MinDistanceIsMinimum ==
    pcr.pc = "returned" =>
        IF trace.samples = << >> THEN pcr.minDistance.inf
        ELSE /\ ~pcr.minDistance.inf
             /\ pcr.minDistance.d = MinOf(trace.samples)
             /\ \A k \in DOMAIN trace.samples : trace.samples[k] >= pcr.minDistance.d

C2_Witness ==
    /\ pcr.pc = "returned"
    /\ Len(trace.samples) = 2
    /\ trace.samples[2] < trace.samples[1]
    /\ pcr.minDistance = Fin(trace.samples[2])

\* the other order: the first of two samples is the smaller
C2_FirstIsMinimum ==
    /\ pcr.pc = "returned"
    /\ Len(trace.samples) = 2
    /\ trace.samples[1] < trace.samples[2]
    /\ pcr.minDistance = Fin(trace.samples[1])

\* C3: the timeToClosestApproach returned is the simulated time by which both
\* propagators had been advanced, since entry, when the returned minimum was
\* sampled: 60 * k if that was after the k-th step.
C3_OffsetIsTimeOfMinimum ==
    (pcr.pc = "returned" /\ ~pcr.minDistance.inf) =>
        \E k \in DOMAIN trace.samples :
            /\ trace.samples[k] = pcr.minDistance.d
            /\ pcr.timeToClosestApproach = 60 * k

\* C4: risk and probability follow from minDistance: below 1 km high and 0.001,
\* from 1 km to below 5 km medium and 0.0001, from 5 km on (and with no sample)
\* low and 0.00001.
C4_RiskFromThresholds ==
    pcr.pc = "returned" =>
        LET m == pcr.minDistance
        IN  /\ (~m.inf /\ m.d < 1) => (pcr.risk = "high" /\ pcr.probability = 100)
            /\ (~m.inf /\ 1 <= m.d /\ m.d < 5) => (pcr.risk = "medium" /\ pcr.probability = 10)
            /\ (m.inf \/ m.d >= 5) => (pcr.risk = "low" /\ pcr.probability = 1)

C4_Witness ==
    /\ pcr.pc = "returned"
    /\ pcr.minDistance = Fin(5)
    /\ pcr.risk = "low"

\* reachable outcomes of the classification, one for each row and boundary
C4_High == pcr.pc = "returned" /\ pcr.minDistance = Fin(0) /\ pcr.risk = "high"
C4_BoundaryOne == pcr.pc = "returned" /\ pcr.minDistance = Fin(1) /\ pcr.risk = "medium"
C4_NoSample == pcr.pc = "returned" /\ pcr.minDistance.inf /\ pcr.risk = "low"

\* C9: advancing a propagator built from a two-line element pair raises no
\* error, neither in the simulation tick nor inside predictCollisionRisk.
C9_TLEAdvanceNeverThrows ==
    /\ (last.op = "calculatePosition" /\ FromTLE(last.sim)) => ~last.threw
    /\ pcr.pc # "threw"

----------------------------------------------------------------------------
(* Properties of one propagator, checked under Spec *)

\* the descriptor has neither a velocity change nor a burn duration
LacksBoth(action) ==
    \/ action.parameters = Undefined
    \/ /\ action.parameters[1].deltaV = Undefined
       /\ action.parameters[1].burnDuration = Undefined

\* C5: executeAction with a descriptor that has neither deltaV nor
\* burnDuration returns false, raises nothing and changes neither the
\* propagator nor the stored descriptor.
C5_NoBurnNoEffect ==
    [][ (last'.op = "executeAction" /\ LacksBoth(last'.action)) =>
            /\ last'.ret = "false"
            /\ ~last'.threw
            /\ sims' = sims
            /\ objects' = objects ]_vars

C5_Witness ==
    /\ last.op = "executeAction"
    /\ last.action.parameters # Undefined
    /\ LacksBoth(last.action)
    /\ last.action.parameters[1].newOrbit # Undefined
    /\ last.ret = "false"

\* the propagator was initialised from orbital elements
FromElements(i) == ~FromTLE(i) /\ sims[i].orbitalElements # << >>

\* C6: the elapsed time of a propagator initialised from elements is the sum
\* of the time steps passed to calculatePosition since construction or the
\* last reset.
C6_TimeIsSumOfSteps ==
    \A i \in SimId : FromElements(i) => getCurrentState(sims[i]).simulationTime = hist[i].advanced

\* C7: with the element set not replaced, reset() and then an advance of 0 s
\* give the position computed at construction.
C7_ResetReproducesInitialPosition ==
    ( /\ last.op = "calculatePosition"
      /\ last.dt = 0
      /\ last.afterReset
      /\ FromElements(last.sim)
      /\ ~hist[last.sim].replaced ) =>
        getCurrentState(sims[last.sim]).position = hist[last.sim].initPos

C7_Witness ==
    /\ last.op = "calculatePosition"
    /\ last.dt = 0
    /\ last.afterReset
    /\ FromElements(last.sim)
    /\ ~hist[last.sim].replaced
    /\ hist[last.sim].moved
    /\ hist[last.sim].burns > 0
    /\ sims[last.sim].position = hist[last.sim].initPos
    /\ sims[last.sim].position # ZeroVec

\* what reset() is said to settle
Core(s) == [time |-> s.time, position |-> s.position, velocity |-> s.velocity,
            orbitalElements |-> s.orbitalElements]

\* C8 as stated: reset() never fails, and a second reset() in a row leaves the
\* elapsed time, position, velocity and elements of the first.
C8_ResetIdempotent ==
    [][ (last'.op = "reset") =>
            /\ ~last'.threw
            /\ (last.op = "reset" /\ last.sim = last'.sim) =>
                   Core(sims'[last'.sim]) = Core(sims[last'.sim]) ]_vars

\* C8 as it holds: reset() never fails; a second reset() in a row leaves the
\* elapsed time and the elements of the first, and for a propagator
\* initialised from elements the position and velocity as well.
C8_ResetIdempotentOnElements ==
    [][ (last'.op = "reset") =>
            /\ ~last'.threw
            /\ (last.op = "reset" /\ last.sim = last'.sim) =>
                   /\ sims'[last'.sim].time = sims[last'.sim].time
                   /\ sims'[last'.sim].orbitalElements = sims[last'.sim].orbitalElements
                   /\ FromElements(last'.sim) =>
                          Core(sims'[last'.sim]) = Core(sims[last'.sim]) ]_vars

C8_Witness ==
    /\ last.op = "reset"
    /\ last.afterReset
    /\ FromElements(last.sim)
    /\ hist[last.sim].burns > 0
    /\ hist[last.sim].moved

\* C10: when the library has no position for the time asked,
\* updatePositionFromTLE leaves position, velocity and altitude as they were
\* and raises nothing.
C10_NoPositionNoChange ==
    (last.probe.ran /\ ~last.probe.valid) =>
        /\ Snapshot(sims[last.sim], objects) = last.probe.before
        /\ ~last.threw

C10_Witness ==
    /\ last.probe.ran
    /\ ~last.probe.valid
    /\ last.op = "executeAction"
    /\ last.probe.before.position # ZeroVec
    /\ ~last.probe.before.velocity.nan
    /\ last.probe.before.velocity # ZeroVec
    /\ Snapshot(sims[last.sim], objects) = last.probe.before

\* C11: calculatePosition on a propagator initialised from elements changes
\* only the elapsed time and the position; the velocity, every orbital
\* element, the descriptor objects and the other propagator stay as they were.
C11_AdvanceChangesTimeAndPosition ==
    [][ (last'.op = "calculatePosition" /\ FromElements(last'.sim)) =>
            /\ ~last'.threw
            /\ sims'[last'.sim].velocity = sims[last'.sim].velocity
            /\ sims'[last'.sim].orbitalElements = sims[last'.sim].orbitalElements
            /\ sims' = [sims EXCEPT ![last'.sim].time = sims[last'.sim].time + last'.dt,
                                    ![last'.sim].position = sims'[last'.sim].position]
            /\ objects' = objects ]_vars

C11_Witness ==
    /\ last.op = "calculatePosition"
    /\ last.dt = 60
    /\ FromElements(last.sim)
    /\ hist[last.sim].burns > 0
    /\ sims[last.sim].velocity.nan
    /\ sims[last.sim].position # hist[last.sim].initPos

\* the vectors point the same way: no component changes sign and the cross
\* product vanishes up to the rounding of the components
SameDirection(v, w) ==
    /\ ~v.nan /\ ~w.nan
    /\ v.x * w.x >= 0 /\ v.y * w.y >= 0 /\ v.z * w.z >= 0
    /\ Abs(v.x * w.y - v.y * w.x) <= 2 * (Abs(v.x) + Abs(v.y) + Abs(w.x) + Abs(w.y))
    /\ Abs(v.y * w.z - v.z * w.y) <= 2 * (Abs(v.y) + Abs(v.z) + Abs(w.y) + Abs(w.z))
    /\ Abs(v.z * w.x - v.x * w.z) <= 2 * (Abs(v.z) + Abs(v.x) + Abs(w.z) + Abs(w.x))

\* C12: whenever executeAction returns true for a velocity change deltaV, the
\* velocity afterwards is a vector of well-defined numbers whose magnitude is
\* the magnitude before plus deltaV (up to rounding) and whose direction is
\* the direction before, a freshly constructed propagator included.
C12_BurnAddsDeltaV ==
    [][ (last'.op = "executeAction" /\ last'.ret = "true") =>
            LET before == sims[last'.sim].velocity
                after == sims'[last'.sim].velocity
                deltaV == last'.action.parameters[1].deltaV[1]
            IN  /\ ~after.nan
                /\ ~before.nan
                /\ Abs(Magnitude(after).v - (Magnitude(before).v + deltaV)) <= 1
                /\ SameDirection(before, after) ]_vars

\* C13: without a two-line element pair, the eccentricity of the elements is
\* the one the descriptor supplies (0 included) and 0.01 when it supplies
\* none, whatever the orbit class; RAAN and mean anomaly are the descriptor's,
\* in radians, for the class Polar, and 0 otherwise.
C13_ElementsFromDescriptor ==
    \A i \in SimId : FromElements(i) =>
        LET sat == Sat(sims[i], objects)
            oe == sims[i].orbitalElements[1]
            polar == sat.orbitType = "Polar"
        IN  /\ oe.eccentricity =
                   IF sat.eccentricity # Undefined THEN sat.eccentricity[1] ELSE 10
            /\ oe.rightAscensionOfAscendingNode =
                   IF polar /\ sat.rightAscensionOfAscendingNode # Undefined
                   THEN ToRad(sat.rightAscensionOfAscendingNode[1]) ELSE 0
            /\ oe.meanAnomaly =
                   IF polar /\ sat.meanAnomaly # Undefined
                   THEN ToRad(sat.meanAnomaly[1]) ELSE 0

\* C14: the elements of a propagator initialised from elements always have an
\* eccentricity in [0, 1), a semi-major axis above the Earth's radius and a
\* positive mean motion.
C14_ElementsInRange ==
    \A i \in SimId : FromElements(i) =>
        LET oe == sims[i].orbitalElements[1]
        IN  /\ 0 <= oe.eccentricity /\ oe.eccentricity < 1000
            /\ oe.semiMajorAxis > earthRadius
            /\ oe.meanMotion > 0

\* reachable cases of the two: a LEO descriptor that supplies eccentricity 0,
\* a Polar one whose eccentricity is dropped, a hyperbolic replacement
C13_ZeroSupplied ==
    /\ FromElements(1)
    /\ Sat(sims[1], objects).eccentricity = << 0 >>
    /\ sims[1].orbitalElements[1].eccentricity = 10
C13_PolarDropped ==
    /\ FromElements(1)
    /\ Sat(sims[1], objects).eccentricity = << 200 >>
    /\ sims[1].orbitalElements[1].eccentricity = 0
C14_Hyperbolic ==
    /\ FromElements(1)
    /\ sims[1].orbitalElements[1].eccentricity = 1500
    /\ sims[1].position.nan
C14_SeaLevel ==
    /\ FromElements(1)
    /\ sims[1].orbitalElements[1].semiMajorAxis = earthRadius

\* C15: no operation of a propagator changes a descriptor object that was
\* passed to a constructor: the callers' objects stay as the callers made them.
C15_DescriptorUntouched == objects = Catalogue

\* reachable cases: a maneuver of propagator 1 rewrites the velocity of the
\* object propagator 2 was built from too; a construction from a two-line
\* element pair rewrites the altitude of its object
C15_SharedVelocity ==
    /\ last.op = "executeAction"
    /\ last.sim = 1
    /\ sims[1].ref # 0
    /\ sims[2].ref = sims[1].ref
    /\ Sat(sims[2], objects).velocity # Catalogue[sims[2].ref].velocity
C15_ConstructionWrites ==
    /\ last.op = "new"
    /\ objects[sims[2].ref].altitude # Catalogue[sims[2].ref].altitude

\* what predictCollisionRisk hands back, or that it raised
Result(frame) ==
    [ pc |-> frame.pc, minDistance |-> frame.minDistance, risk |-> frame.risk,
      probability |-> frame.probability, timeToClosestApproach |-> frame.timeToClosestApproach ]

\* C16: predictCollisionRisk(A, B, H) and predictCollisionRisk(B, A, H), each
\* run on copies of A and B as they were, give the same minDistance, risk and
\* time offset (and raise together when one of them raises).
C16_OrderIndependent ==
    PcrOver =>
        Result(pcr) = Result(predictCollisionRisk(trace.copies[2], trace.copies[1],
                                                  objects, pcr.timeHorizon))

C16_Witness ==
    /\ pcr.pc = "returned"
    /\ Len(trace.samples) = 2
    /\ trace.samples[2] < trace.samples[1]
    /\ pcr.timeToClosestApproach = 60
    /\ trace.copies[1].orbitalElements # trace.copies[2].orbitalElements
    /\ trace.copies[1].position # trace.copies[2].position
    /\ Result(pcr) = Result(predictCollisionRisk(trace.copies[2], trace.copies[1], objects, 90))

----------------------------------------------------------------------------
(* Properties of solveKeplersEquation, checked under SpecKepler *)

\* the test of the break: |E - e * sin(E) - M| < 1e-6, false for NaN
Converged(k) ==
    /\ ~k.eccentricAnomaly.nan
    /\ ~k.meanAnomaly.nan
    /\ Abs(KeplerF(k)) < KeplerTol

\* C17: solveKeplersEquation makes at most 10 Newton updates: each pass either
\* stops, exactly when |f| < 1e-6 or 10 updates are done, returning the
\* estimate it has, or makes one more update; it never raises.
C17_KeplerStopsWithinCap ==
    [][ kepler.pc = "loop" =>
            /\ kepler.i <= maxIterations
            /\ kepler'.pc \in {"loop", "returned"}
            /\ (kepler'.pc = "returned") <=> (Converged(kepler) \/ kepler.i = maxIterations)
            /\ (kepler'.pc = "returned") =>
                   /\ kepler'.eccentricAnomaly = kepler.eccentricAnomaly
                   /\ kepler'.i = kepler.i
            /\ (kepler'.pc = "loop") => kepler'.i = kepler.i + 1 ]_vars

\* the cap is reached with a residual that never passed the test
C17_Witness ==
    /\ kepler.pc = "returned"
    /\ kepler.i = maxIterations
    /\ ~Converged(kepler)

\* the break is taken after some updates
C17_EarlyBreak ==
    /\ kepler.pc = "returned"
    /\ kepler.i > 1
    /\ kepler.i < maxIterations
    /\ Converged(kepler)
    /\ kepler.eccentricAnomaly # kepler.meanAnomaly

\* the cap is reached on finite values
C17_FiniteCap ==
    /\ kepler.pc = "returned"
    /\ kepler.i = maxIterations
    /\ ~kepler.eccentricAnomaly.nan

----------------------------------------------------------------------------
(* Properties of the hook useSatelliteData, checked under SpecHook *)

\* C18: whenever the most recent of the startSimulation and stopSimulation
\* calls is stopSimulation, isSimulationRunning is false and no interval set
\* by an earlier startSimulation is still active.
C18_StoppedMeansNoInterval ==
    (hookLast.op = "stopSimulation") => (~isSimulationRunning /\ intervals = { })

\* reachable: two starts and a stop leave the first timer running
C18_LeakedInterval ==
    /\ hookLast.op = "stopSimulation"
    /\ simulationInterval = 2
    /\ intervals = { 1 }

\* the entry as one firing leaves it, given the simulator of its id after it
Stamped(sat, sim) ==
    [sat EXCEPT !.currentPosition = << sim.position >>,
                !.currentVelocity = << sim.velocity >>,
                !.lastUpdated = TRUE]

\* C19: a firing of the interval advances every simulator of the registry by
\* 60 s, once, and copies its position and velocity into the entries with its
\* id; every other entry and every other field but lastUpdated stays.
C19_TickAdvancesAll ==
    [][ (hookLast'.op = "tick") =>
            /\ ~hookLast'.threw
            /\ Len(simulators') = Len(simulators)
            /\ \A k \in DOMAIN simulators :
                   /\ simulators'[k].id = simulators[k].id
                   /\ simulators'[k].inst = simulators[k].inst
                   /\ simulators'[k].sim.time = simulators[k].sim.time + 60
            /\ Len(satellites') = Len(satellites)
            /\ \A j \in DOMAIN satellites :
                   satellites'[j] =
                       IF Has(simulators', satellites[j].id)
                       THEN Stamped(satellites[j], Get(simulators', satellites[j].id).sim)
                       ELSE satellites[j] ]_vars

\* the same for a registry whose simulators were all initialised from elements
C19_TickAdvancesElementSimulators ==
    [][ ( /\ hookLast'.op = "tick"
          /\ \A k \in DOMAIN simulators : simulators[k].sim.orbitalElements # << >> ) =>
            /\ ~hookLast'.threw
            /\ Len(simulators') = Len(simulators)
            /\ \A k \in DOMAIN simulators :
                   /\ simulators'[k].id = simulators[k].id
                   /\ simulators'[k].inst = simulators[k].inst
                   /\ simulators'[k].sim.time = simulators[k].sim.time + 60
            /\ Len(satellites') = Len(satellites)
            /\ \A j \in DOMAIN satellites :
                   satellites'[j] =
                       IF Has(simulators', satellites[j].id)
                       THEN Stamped(satellites[j], Get(simulators', satellites[j].id).sim)
                       ELSE satellites[j] ]_vars

\* reachable: the firing that meets a simulator built from a TLE
C19_TickThrew == hookLast.op = "tick" /\ hookLast.threw /\ ~mounted

\* the registry has one simulator for each id of the list and no other
RegistryMatchesList ==
    /\ Ids(simulators) = Ids(satellites)
    /\ \A k, l \in DOMAIN simulators : simulators[k].id = simulators[l].id => k = l

\* C20: after the effect has run, the registry holds a simulator for exactly
\* the ids of the list; an id that stays in the list keeps its simulator
\* instance, whose elapsed time is not lost: additions and removals leave the
\* simulator as it is and a firing of the interval never sets its time back.
C20_RegistryFollowsList ==
    [][ /\ RegistryMatchesList'
        /\ \A id \in Ids(satellites) \intersect Ids(satellites') :
               /\ Has(simulators, id) /\ Has(simulators', id)
               /\ Get(simulators', id).inst = Get(simulators, id).inst
               /\ Get(simulators', id).sim.time >= Get(simulators, id).sim.time
               /\ hookLast'.op # "tick" =>
                      Get(simulators', id).sim = Get(simulators, id).sim ]_vars

C20_Witness ==
    /\ hookLast.op = "remove"
    /\ Len(satellites) = 1
    /\ satellites[1].lastUpdated
    /\ Len(simulators) = 1
    /\ simulators[1].id = satellites[1].id
    /\ simulators[1].inst = 2
    /\ simulators[1].sim.time = 121
    /\ allocated.simulator = 3

----------------------------------------------------------------------------
(* Properties of the list under the form, checked under SpecForm *)

----------------------------------------------------------------------------
(* Properties of the automatic maneuvers, checked under SpecAuto *)

\* C22: while a conjunction stays in the active list and automatic maneuvers
\* stay enabled, processCollisions calls onExecuteAction for it at most once
C22_AtMostOncePerConjunction == \A k \in DOMAIN executed : ~executed[k].again

\* C23: onExecuteAction is called for a conjunction only when, at the call,
\* automatic maneuvers are enabled, the risk is high or medium, the satellite
\* is in the list and the closest approach is an hour or more away; the
\* maneuver is 2 m/s over 60 s for high and 1 m/s over 30 s for medium risk
C23_ManeuverOnlyWhenDue ==
    \A k \in DOMAIN executed :
        /\ executed[k].enabled
        /\ executed[k].risk \in {"high", "medium"}
        /\ executed[k].inList
        /\ executed[k].toTCA >= Hour
        /\ executed[k].risk = "high" => executed[k].deltaV = 2 /\ executed[k].burnDuration = 60
        /\ executed[k].risk = "medium" => executed[k].deltaV = 1 /\ executed[k].burnDuration = 30

\* a maneuver was made for a conjunction of medium risk while a conjunction
\* whose closest approach is less than an hour away was in the active list
C23_Witness ==
    /\ \E k \in DOMAIN executed : executed[k].risk = "medium"
    /\ \E k \in DOMAIN conjunctions : conjunctions[k].tca - now < Hour

\* C24: maneuverCount is the number of automatic maneuvers for which the
\* hook's executeAction returned true
C24_CountIsExecuted ==
    maneuverCount = Cardinality({ k \in DOMAIN executed : executed[k].returned })

----------------------------------------------------------------------------
(* Properties of the monitoring passes and the alert panel, checked under
   SpecApp *)

\* C25: the dismissed set only grows, and no alert the panel is given has a
\* dismissed id
C25_DismissedStaysHidden ==
    [][ /\ dismissedAlerts \subseteq dismissedAlerts'
        /\ \A id \in dismissedAlerts' : id \notin Shown' ]_vars

\* a space weather alert was dismissed and is still in the list of the hook
C25_Witness ==
    \E id \in dismissedAlerts :
        \E k \in DOMAIN spaceWeatherAlerts : spaceWeatherAlerts[k].id = id

\* C26: a conjunction of the same satellite and object keeps its id from pass
\* to pass, so once dismissed it is not among the active conjunctions again
C26_DismissedConjunctionStaysAway ==
    \A id \in dismissedAlerts :
        id.kind = "conj" =>
            \A k \in DOMAIN conjunctions :
                conjunctions[k].satelliteId = id.sat /\ conjunctions[k].objectName = id.obj
                    => conjunctions[k].id \in dismissedAlerts

\* C27: while the list is empty, alerts, conjunctions, spaceWeatherAlerts and
\* threatAssessments are empty
C27_EmptyListNoAlerts ==
    satellites = << >> =>
        /\ alerts = << >>
        /\ conjunctions = << >>
        /\ spaceWeatherAlerts = << >>
        /\ threatAssessments = << >>

\* C28: no two entries of spaceWeatherAlerts have the same id
C28_UniqueSpaceWeatherIds ==
    \A a, b \in DOMAIN spaceWeatherAlerts :
        a # b => spaceWeatherAlerts[a].id # spaceWeatherAlerts[b].id

\* C30: a pass all of whose requests failed leaves isOfflineMode true
C30_OfflineWhenRequestsFail == settled = "failed" => isOfflineMode

----------------------------------------------------------------------------
(* Properties of predictCollisions, checked under SpecCollisions *)

\* C29: when all simulators had the same elapsed time at the call of
\* predictCollisions, every distance sampled during the call is taken with
\* the two simulators at the same elapsed time
C29_SamplesAtEqualElapsedTime ==
    prediction.equalAtEntry /\ prediction.sample # << >>
        => prediction.sample[1] = prediction.sample[2]

====
